---- MODULE Spec2Model ----
(***************************************************************************)
(* A model of the ecological simulation engine of ecology123: the World    *)
(* grid and death ledger, the StepProcessor tick pipeline, the             *)
(* ReproductionProcessor state machine and the EcologicalAnalyzer          *)
(* oscillation detector.                                                   *)
(*                                                                         *)
(* Energies and grass densities are fixed-point numbers in thousandths     *)
(* (0.04 is 40, 1.0 is 1000); floating-point rounding is not modelled.     *)
(* Organisms are objects on a heap (org), referenced by id from the cell   *)
(* slots and from the snapshot list of the pass that is running (batch),   *)
(* as the JavaScript objects are.  Every Math.random() draw is a           *)
(* nondeterministic choice over the outcomes it can produce.               *)
(***************************************************************************)
EXTENDS Integers, Sequences, FiniteSets, TLC

(***************************************************************************)
(* Configuration (WorldConfig.ts, first export), scaled by 1000.           *)
(***************************************************************************)
GrassGrowthRate == 100
GrassMaxDensity == 1000
GrassConsumptionRate == 500
GrassSpreadingRadius == 1
GrassGrowthIncrement == 50
GrassSpreadDensity == 800
GrassSpreadAttempts == 3
GrassReproMinDensity == 600
GrassReproSpreadRadius == 2
GrassReproMinInterval == 5
GrassMaxSeedsPerStep == 3
NewGrassDensity == 100
NewGrassEnergy == 100

SheepHungerThreshold == 10
SheepReproductionThreshold == 400
SheepLifespan == 100
SheepEnergyPerGrass == 1000
SheepEnergyPerStep == 40
SheepMinAge == 10
SheepMaxAge == 80
SheepMinEnergy == 300
SheepCooldownPeriod == 10
SheepGestationPeriod == 8
SheepEnergyCost == 200
SheepPartnerProximity == 5
SheepLitterSizeMin == 2
SheepLitterSizeMax == 3
SheepFleeRadius == 6
SheepEatRadius == 2
SheepGrassSearchRadius == 3
SheepPairDistance == 2
SheepBatchCooldown == 20
SheepBatchOffspringEnergy == 500
SheepBatchOffspringCooldown == 10

WolfHungerThreshold == 35
WolfLifespan == 150
WolfEnergyPerSheep == 3000
WolfEnergyPerStep == 10
WolfMinAge == 5
WolfMaxAge == 120
WolfMinEnergy == 50
WolfCooldownPeriod == 15
WolfGestationPeriod == 5
WolfEnergyCost == 200
WolfTerritoryRadius == 10
WolfLitterSizeMin == 3
WolfLitterSizeMax == 6
WolfChaseDistance == 4
AlphaBreedingOnly == FALSE

PauseOnExtinction == TRUE

\* createWorldConfig, as far as the runs of the model set it
DefaultConfig == [alphaBreedingOnly |-> AlphaBreedingOnly, pauseOnExtinction |-> PauseOnExtinction]

\* the state of a SimulationEngine after its constructor; speeds are in tenths of
\* a step per second, intervalId 0 is null, timers are the intervals not yet cleared,
\* caller says whether step() or an interval callback entered processStep
NewEngine(step) ==
    [isRunning |-> FALSE, isPaused |-> FALSE, currentStep |-> step, speed |-> 10,
     intervalId |-> 0, timers |-> {}, pc |-> "ready", caller |-> "none"]

MiscarriageEnergy == 200
OffspringEnergy == 600
BirthRadius == 2
RecentDeathsCapacity == 50
BaseTemperature == 20
SeasonLength == 150

Species == {"grass", "sheep", "wolf"}
Causes == {"hunger", "hunting", "age", "starvation", "grazing", "other"}

VARIABLES
    width,        \* WorldState.width
    height,       \* WorldState.height
    cells,        \* WorldState.cells: position -> the ids in its three slots (0: empty)
    org,          \* the heap: id -> organism object
    currentStep,  \* WorldState.currentStep
    spStep,       \* StepProcessor.currentStep
    season,       \* WorldState.season
    temperature,  \* WorldState.temperature
    statistics,   \* WorldState.statistics (counts, totalEnergy, totalSteps)
    deathStats,   \* WorldState.statistics.deathStats
    nextId,       \* the next fresh organism id
    pc,           \* the position of processStep in its pipeline
    batch,        \* the snapshot list the running pass works on (aliveSheep, aliveWolves)
    log,          \* history of the current tick: what was recorded, eaten, created
    populationHistory,  \* EcologicalAnalyzer.populationHistory, the counts of one species
    speciesStates,      \* EcologicalAnalyzer.speciesStates of that species
    oscillationCycles,  \* EcologicalAnalyzer.oscillationCycles
    feed,         \* the population series handed to recordPopulation, and how far it got
    config,       \* the WorldConfig fields that runs differ in: wolf.reproduction.alphaBreedingOnly
    engine,       \* SimulationEngine: state.isRunning, isPaused, currentStep, speed; intervalId and the live timers
    extinctionAnalyses, \* EcologicalAnalyzer.extinctionAnalyses
    alerts,       \* EcologicalAnalyzer.alerts
    maxSteps,     \* the step at which the driver of the simulation stops calling processStep
    returned      \* what the last direct call of a World method returned

analyzerVars == <<populationHistory, speciesStates, oscillationCycles, feed, extinctionAnalyses, alerts>>

vars == <<width, height, cells, org, currentStep, spStep, season, temperature,
          statistics, deathStats, nextId, pc, batch, log, analyzerVars, config, engine, maxSteps, returned>>

(***************************************************************************)
(* Arithmetic helpers.                                                     *)
(***************************************************************************)
Abs(n) == IF n < 0 THEN -n ELSE n
Sign(n) == IF n > 0 THEN 1 ELSE IF n < 0 THEN -1 ELSE 0
Min(a, b) == IF a <= b THEN a ELSE b
Max(a, b) == IF a >= b THEN a ELSE b

\* floor(c * sqrt(n) / 50): the largest k with (50 k)^2 <= c^2 n
ScaledFloor(c, n) == CHOOSE k \in 0..(c * n) : 2500 * k * k <= c * c * n /\ 2500 * (k + 1) * (k + 1) > c * c * n

\* Math.random() < p with p = num/den: the outcomes the draw can produce
RandomBelow(num, den) == {b \in BOOLEAN : (b => num > 0) /\ (~b => num < den)}

\* Math.floor(Math.random() * (2r + 1)) - r
RandomOffset(r) == (-r)..r

(***************************************************************************)
(* World: grid access.                                                     *)
(***************************************************************************)
SheepMovementRange == Max(1, ScaledFloor(2, width * height))
WolfMovementRange == Max(2, ScaledFloor(8, width * height))
WolfHuntingRadius == Max(3, ScaledFloor(15, width * height))

IsValidPosition(x, y) == x >= 0 /\ x < width /\ y >= 0 /\ y < height

\* the order of the nested x, y loops of getOrganismsByType and findNearbyOrganisms
RasterPos == [i \in 1..(width * height) |-> <<(i - 1) \div height, (i - 1) % height>>]

EmptyCell == [grass |-> 0, sheep |-> 0, wolf |-> 0]

\* the values null and undefined
Null == [null |-> TRUE]
Undefined == [undefined |-> TRUE]

\* a getCell that answers for the nearest cell of the grid
GetCellClamped(w, x, y) ==
    w.cells[<<Max(0, Min(x, width - 1)), Max(0, Min(y, height - 1))>>]

GetCell(w, x, y) == IF IsValidPosition(x, y) THEN w.cells[<<x, y>>] ELSE Null

GetOrganismsByType(w, t) ==
    LET ps == SelectSeq(RasterPos, LAMBDA p : w.cells[p][t] # 0)
    IN  [i \in 1..Len(ps) |-> w.cells[ps[i]][t]]

FindNearbyOrganisms(w, x, y, radius, t) ==
    LET ps == SelectSeq(RasterPos, LAMBDA p : /\ Abs(p[1] - x) <= radius
                                              /\ Abs(p[2] - y) <= radius
                                              /\ w.cells[p][t] # 0)
    IN  [i \in 1..Len(ps) |-> w.cells[ps[i]][t]]

\* setCellContent(x, y, {[t]: organism}); log.overwritten counts the writes that
\* replace another organism of the same species
SetCellContent(w, x, y, t, id) ==
    IF ~IsValidPosition(x, y) THEN w
    ELSE [w EXCEPT !.cells[<<x, y>>][t] = id,
                   !.log.overwritten = @ + (IF w.cells[<<x, y>>][t] \in {0, id} THEN 0 ELSE 1)]

\* delete cell[t]
DeleteSlot(w, x, y, t) ==
    IF ~IsValidPosition(x, y) THEN w ELSE [w EXCEPT !.cells[<<x, y>>][t] = 0]

ClearCellContent(w, x, y) ==
    IF ~IsValidPosition(x, y) THEN w ELSE [w EXCEPT !.cells[<<x, y>>] = EmptyCell]

(***************************************************************************)
(* World: the death ledger.                                                *)
(***************************************************************************)
InitializeDeathStats ==
    [totalDeaths |-> 0,
     deathsByCause |-> [c \in Causes |-> 0],
     deathsByType |-> [t \in Species |-> 0],
     recentDeaths |-> <<>>,
     sheepDeaths |-> 0, wolfDeaths |-> 0, grassDeaths |-> 0]

GetOrganismType(o) ==
    IF "density" \in DOMAIN o THEN "grass"
    ELSE IF o.grazingKey THEN "sheep"
    ELSE IF o.huntingKey THEN "wolf"
    ELSE "grass"

DeathRecord(o, cause, step) ==
    [organismId |-> o.id, organismType |-> GetOrganismType(o), cause |-> cause,
     step |-> step, energy |-> o.energy, age |-> o.age, x |-> o.x, y |-> o.y]

\* recordDeath without the shift of the oldest record
LedgerRecordUnbounded(ds, o, cause, step) ==
    LET rec == DeathRecord(o, cause, step)
    IN  [totalDeaths |-> ds.totalDeaths + 1,
         deathsByCause |-> [ds.deathsByCause EXCEPT ![cause] = @ + 1],
         deathsByType |-> [ds.deathsByType EXCEPT ![rec.organismType] = @ + 1],
         recentDeaths |-> Append(ds.recentDeaths, rec),
         sheepDeaths |-> ds.sheepDeaths + (IF rec.organismType = "sheep" THEN 1 ELSE 0),
         wolfDeaths |-> ds.wolfDeaths + (IF rec.organismType = "wolf" THEN 1 ELSE 0),
         grassDeaths |-> ds.grassDeaths + (IF rec.organismType = "grass" THEN 1 ELSE 0)]

\* recordDeath with unshift and pop in place of push and shift
LedgerRecordNewestFirst(ds, o, cause, step) ==
    LET rec == DeathRecord(o, cause, step)
        pushed == <<rec>> \o ds.recentDeaths
    IN  [LedgerRecordUnbounded(ds, o, cause, step) EXCEPT
            !.recentDeaths = IF Len(pushed) > RecentDeathsCapacity
                             THEN SubSeq(pushed, 1, RecentDeathsCapacity) ELSE pushed]

\* the ledger after recordDeath(o, cause) at world step `step`
LedgerRecord(ds, o, cause, step) ==
    LET rec == DeathRecord(o, cause, step)
        pushed == Append(ds.recentDeaths, rec)
    IN  [totalDeaths |-> ds.totalDeaths + 1,
         deathsByCause |-> [ds.deathsByCause EXCEPT ![cause] = @ + 1],
         deathsByType |-> [ds.deathsByType EXCEPT ![rec.organismType] = @ + 1],
         recentDeaths |-> IF Len(pushed) > RecentDeathsCapacity THEN Tail(pushed) ELSE pushed,
         sheepDeaths |-> ds.sheepDeaths + (IF rec.organismType = "sheep" THEN 1 ELSE 0),
         wolfDeaths |-> ds.wolfDeaths + (IF rec.organismType = "wolf" THEN 1 ELSE 0),
         grassDeaths |-> ds.grassDeaths + (IF rec.organismType = "grass" THEN 1 ELSE 0)]

RecordDeath(w, id, cause) ==
    [w EXCEPT !.ds = LedgerRecord(w.ds, w.org[id], cause, w.step),
              !.log.deaths = Append(@, DeathRecord(w.org[id], cause, w.step))]

(***************************************************************************)
(* Organism objects.  grazingKey and huntingKey say whether the object has *)
(* the key grazingEfficiency / huntingTarget; species is the TypeScript    *)
(* type the object was created as (no code reads it).                      *)
(***************************************************************************)
NewReproductionState(last) ==
    [present |-> TRUE, isPregnant |-> FALSE, gestationRemaining |-> 0,
     expectedLitterSize |-> 0, pregnancyEnergyCost |-> 0, mateId |-> 0,
     lastMatingStep |-> last]

NoReproductionState == [NewReproductionState(0) EXCEPT !.present = FALSE]

GetGrowthStage(density) ==
    IF density < 300 THEN "seed"
    ELSE IF density < 600 THEN "sprout"
    ELSE IF density < 900 THEN "mature"
    ELSE "dying"

NewGrass(id, x, y, step) ==
    [species |-> "grass", id |-> id, x |-> x, y |-> y, energy |-> NewGrassEnergy,
     age |-> 0, isAlive |-> TRUE, density |-> NewGrassDensity, growthStage |-> "seed",
     lastGrazed |-> 0, lastSpreadStep |-> step]

NewAnimal(sp, id, x, y, energy, cooldown) ==
    [species |-> sp, id |-> id, x |-> x, y |-> y, energy |-> energy, age |-> 0,
     isAlive |-> TRUE, hunger |-> 0, reproductionCooldown |-> cooldown,
     reproductionState |-> NewReproductionState(0),
     grazingKey |-> (sp = "sheep"), huntingKey |-> FALSE, huntingTarget |-> 0,
     packId |-> 0, packRole |-> "omega"]

SeqToSet(s) == {s[i] : i \in DOMAIN s}

\* a new object on the heap, noted as created in this tick
Allocate(w, o) ==
    [w EXCEPT !.org = (o.id :> o) @@ @, !.nextId = @ + 1, !.log.born = @ \cup {o.id}]

(***************************************************************************)
(* StepProcessor: the grass pass.                                          *)
(***************************************************************************)
GetSeasonalGrowthModifier(s) ==
    CASE s = "spring" -> 1000
      [] s = "summer" -> 150
      [] s = "autumn" -> 800
      [] s = "winter" -> 50

\* growthRate = baseGrowthRate * seasonalModifier * (1 + (temperature - 20) * 0.1),
\* as a fraction of GrowthRateUnit
GrowthRate(s, temp) == GrassGrowthRate * GetSeasonalGrowthModifier(s) * (10 + (temp - BaseTemperature))
GrowthRateUnit == 10000000

AgeAll(w, ids) ==
    [w EXCEPT !.org = [i \in DOMAIN @ |->
        IF i \in SeqToSet(ids) THEN [@[i] EXCEPT !.age = @ + 1] ELSE @[i]]]

RECURSIVE ProcessGrassGrowthBatch(_, _)
ProcessGrassGrowthBatch(w, ids) ==
    IF ids = <<>> THEN {w}
    ELSE LET g == w.org[Head(ids)]
             d == Min(g.density + GrassGrowthIncrement, GrassMaxDensity)
             grown == [w EXCEPT !.org[g.id].density = d,
                                !.org[g.id].growthStage = GetGrowthStage(d)]
         IN  IF ~g.isAlive \/ g.density >= GrassMaxDensity
             THEN ProcessGrassGrowthBatch(w, Tail(ids))
             ELSE UNION {ProcessGrassGrowthBatch(IF grow THEN grown ELSE w, Tail(ids)) :
                         grow \in RandomBelow(GrowthRate(w.season, w.temperature), GrowthRateUnit)}

CreateNewGrass(w, x, y) ==
    SetCellContent([Allocate(w, NewGrass(w.nextId, x, y, 0)) EXCEPT !.log.spread = Append(@, <<x, y>>)],
                   x, y, "grass", w.nextId)

\* the attempts loop of one mature grass: a draw that hits a free cell seeds it and
\* ends the loop, any other draw goes to the next attempt
RECURSIVE SpreadAttempts(_, _, _)
SpreadAttempts(w, g, left) ==
    IF left = 0 THEN {w}
    ELSE LET draws == RandomOffset(GrassSpreadingRadius) \X RandomOffset(GrassSpreadingRadius)
             Free(d) == /\ IsValidPosition(g.x + d[1], g.y + d[2])
                        /\ w.cells[<<g.x + d[1], g.y + d[2]>>].grass = 0
         IN  {CreateNewGrass(w, g.x + d[1], g.y + d[2]) : d \in {e \in draws : Free(e)}}
             \cup (IF \E d \in draws : ~Free(d) THEN SpreadAttempts(w, g, left - 1) ELSE {})

RECURSIVE SpreadEach(_, _)
SpreadEach(w, ids) ==
    IF ids = <<>> THEN {w}
    ELSE UNION {SpreadEach(w2, Tail(ids)) :
                w2 \in SpreadAttempts(w, w.org[Head(ids)], GrassSpreadAttempts)}

ProcessGrassSpreadingBatch(w, ids) ==
    SpreadEach(w, SelectSeq(ids, LAMBDA i : w.org[i].isAlive /\ w.org[i].density >= GrassSpreadDensity))

\* a grass pass that ends by clearing the cells of grass in its dying stage
ProcessGrassBatchWilting(w) ==
    LET grass == GetOrganismsByType(w, "grass")
        Wilt(w3) == [w3 EXCEPT !.cells = [pos \in DOMAIN @ |->
                        IF @[pos]["grass"] # 0 /\ w3.org[@[pos]["grass"]].growthStage = "dying"
                        THEN [@[pos] EXCEPT !["grass"] = 0] ELSE @[pos]]]
    IN  IF grass = <<>> THEN {w}
        ELSE {Wilt(w3) : w3 \in UNION {ProcessGrassSpreadingBatch(w2, grass) :
                                       w2 \in ProcessGrassGrowthBatch(AgeAll(w, grass), grass)}}

ProcessGrassBatch(w) ==
    LET grass == GetOrganismsByType(w, "grass")
    IN  IF grass = <<>> THEN {w}
        ELSE UNION {ProcessGrassSpreadingBatch(w2, grass) :
                    w2 \in ProcessGrassGrowthBatch(AgeAll(w, grass), grass)}

(***************************************************************************)
(* StepProcessor: helpers shared by the sheep and the wolf pass.           *)
(***************************************************************************)
Lifespan(type) ==
    IF type = "grass" THEN 1000 ELSE IF type = "sheep" THEN SheepLifespan ELSE WolfLifespan

HungerThreshold(type) == IF type = "sheep" THEN SheepHungerThreshold ELSE WolfHungerThreshold

EnergyPerStep(type) == IF type = "sheep" THEN SheepEnergyPerStep ELSE WolfEnergyPerStep

\* the death conditions tested with starvation before age
DeathCauseStarvationFirst(o, type) ==
    IF o.energy <= 0 THEN "starvation"
    ELSE IF o.age >= Lifespan(type) THEN "age"
    ELSE IF o.hunger >= HungerThreshold(type) * 2 THEN "hunger"
    ELSE "none"

\* the death conditions with a starvation test that spares an animal at zero energy
DeathCauseBelowZero(o, type) ==
    IF o.age >= Lifespan(type) THEN "age"
    ELSE IF o.energy < -SheepEnergyPerStep THEN "starvation"
    ELSE IF o.hunger >= HungerThreshold(type) * 2 THEN "hunger"
    ELSE "none"

\* the first true death condition of processDeaths, "none" when no condition holds
DeathCause(o, type) ==
    IF o.age >= Lifespan(type) THEN "age"
    ELSE IF o.energy <= 0 THEN "starvation"
    ELSE IF o.hunger >= HungerThreshold(type) * 2 THEN "hunger"
    ELSE "none"

\* an aging pass that adds energyPerStep instead of subtracting it
AgeAnimalsGaining(w, ids, type) ==
    [w EXCEPT !.org = [i \in DOMAIN @ |->
        IF i \in SeqToSet(ids)
        THEN [@[i] EXCEPT !.age = @ + 1, !.hunger = @ + 1, !.energy = @ + EnergyPerStep(type)]
        ELSE @[i]]]

\* an aging loop that visits every animal of the snapshot twice
AgeAnimalsTwice(w, ids, type) ==
    [w EXCEPT !.org = [i \in DOMAIN @ |->
        IF i \in SeqToSet(ids)
        THEN [@[i] EXCEPT !.age = @ + 2, !.hunger = @ + 2, !.energy = @ - 2 * EnergyPerStep(type)]
        ELSE @[i]]]

\* age++, hunger++, energy -= energyPerStep for every animal of the snapshot
AgeAnimals(w, ids, type) ==
    [w EXCEPT !.org = [i \in DOMAIN @ |->
        IF i \in SeqToSet(ids)
        THEN [@[i] EXCEPT !.age = @ + 1, !.hunger = @ + 1, !.energy = @ - EnergyPerStep(type)]
        ELSE @[i]]]

\* organisms.filter(...) of processDeaths: the world after the cull and the survivors
RECURSIVE ProcessDeaths(_, _, _, _)
ProcessDeaths(w, ids, type, alive) ==
    IF ids = <<>> THEN [world |-> w, alive |-> alive]
    ELSE LET o == w.org[Head(ids)]
             cause == DeathCause(o, type)
             dead == [w EXCEPT !.org[o.id].isAlive = FALSE]
         IN  IF ~o.isAlive THEN ProcessDeaths(w, Tail(ids), type, alive)
             ELSE IF cause # "none"
             THEN ProcessDeaths(RecordDeath(ClearCellContent(dead, o.x, o.y), o.id, cause),
                                Tail(ids), type, alive)
             ELSE ProcessDeaths(w, Tail(ids), type, Append(alive, o.id))

\* a moveOrganism that leaves the organism in the slot of its old cell
MoveOrganismCopying(w, id, newX, newY, type) ==
    LET o == w.org[id]
        moved == [w EXCEPT
                     !.org[id].x = newX, !.org[id].y = newY,
                     !.log.moves = Append(@, [id |-> id, dx |-> newX - o.x, dy |-> newY - o.y])]
    IN  SetCellContent(moved, newX, newY, type, id)

MoveOrganism(w, id, newX, newY, type) ==
    LET o == w.org[id]
        moved == [DeleteSlot(w, o.x, o.y, type) EXCEPT
                     !.org[id].x = newX, !.org[id].y = newY,
                     !.log.moves = Append(@, [id |-> id, dx |-> newX - o.x, dy |-> newY - o.y])]
    IN  SetCellContent(moved, newX, newY, type, id)

\* a target cell test that only looks at the bounds of the grid
FreeForUnchecked(w, x, y, type) == IsValidPosition(x, y)

\* the target cell test of the movement code: sheep need a cell without sheep and
\* wolf, wolves a cell without wolf
FreeFor(w, x, y, type) ==
    /\ IsValidPosition(x, y)
    /\ w.cells[<<x, y>>].wolf = 0
    /\ (type = "sheep" => w.cells[<<x, y>>].sheep = 0)

\* the random movement loop: a draw of a free cell moves there and ends the loop
RECURSIVE RandomMove(_, _, _, _, _)
RandomMove(w, id, type, range, left) ==
    IF left = 0 THEN {w}
    ELSE LET o == w.org[id]
             draws == RandomOffset(range) \X RandomOffset(range)
             Free(d) == FreeFor(w, o.x + d[1], o.y + d[2], type)
         IN  {MoveOrganism(w, id, o.x + d[1], o.y + d[2], type) : d \in {e \in draws : Free(e)}}
             \cup (IF \E d \in draws : ~Free(d) THEN RandomMove(w, id, type, range, left - 1) ELSE {})

MoveAttempts == 3

(***************************************************************************)
(* StepProcessor: the sheep pass.                                          *)
(***************************************************************************)
\* the eating of a sheep that leaves a patch grazed to nothing in its cell
GrazeLeavesStubble(w, sid, gx, gy) ==
    LET gid == w.cells[<<gx, gy>>].grass
        consumed == Min(GrassConsumptionRate, w.org[gid].density)
    IN  [w EXCEPT !.org[gid].density = @ - consumed,
                  !.org[gid].lastGrazed = w.step,
                  !.org[sid].energy = @ + (consumed * SheepEnergyPerGrass) \div 1000,
                  !.org[sid].hunger = 0,
                  !.log.ate = @ \cup {sid},
                  !.log.grazed = Append(@, [sheep |-> sid, grass |-> gid,
                                            sx |-> w.org[sid].x, sy |-> w.org[sid].y,
                                            gx |-> gx, gy |-> gy])]

\* the sheep eats from the grass stored in the cell (gx, gy)
Graze(w, sid, gx, gy) ==
    LET gid == w.cells[<<gx, gy>>].grass
        consumed == Min(GrassConsumptionRate, w.org[gid].density)
        eaten == [w EXCEPT !.org[gid].density = @ - consumed,
                           !.org[gid].lastGrazed = w.step,
                           !.org[sid].energy = @ + (consumed * SheepEnergyPerGrass) \div 1000,
                           !.org[sid].hunger = 0,
                           !.log.ate = @ \cup {sid},
                           !.log.grazed = Append(@, [sheep |-> sid, grass |-> gid,
                                                     sx |-> w.org[sid].x, sy |-> w.org[sid].y,
                                                     gx |-> gx, gy |-> gy])]
    IN  IF eaten.org[gid].density <= 0
        THEN DeleteSlot(RecordDeath(eaten, gid, "grazing"), gx, gy, "grass")
        ELSE eaten

HasGrassToEat(w, x, y) ==
    /\ GetCell(w, x, y) # Null
    /\ GetCell(w, x, y).grass # 0
    /\ w.org[GetCell(w, x, y).grass].density > 0

SheepEatOne(w, sid) ==
    LET s == w.org[sid]
        nearbyGrass == FindNearbyOrganisms(w, s.x, s.y, SheepEatRadius, "grass")
        target == w.org[nearbyGrass[1]]
    IN  IF HasGrassToEat(w, s.x, s.y) THEN Graze(w, sid, s.x, s.y)
        ELSE IF nearbyGrass # <<>> /\ HasGrassToEat(w, target.x, target.y)
        THEN Graze(w, sid, target.x, target.y)
        ELSE w

RECURSIVE SheepEatEach(_, _)
SheepEatEach(w, ids) ==
    IF ids = <<>> THEN w ELSE SheepEatEach(SheepEatOne(w, Head(ids)), Tail(ids))

ProcessSheepEatingBatch(w, ids) ==
    SheepEatEach(w, SelectSeq(ids, LAMBDA i : w.org[i].hunger >= SheepHungerThreshold))

SheepMoveOne(w, sid) ==
    LET s == w.org[sid]
        nearbyWolves == FindNearbyOrganisms(w, s.x, s.y, SheepFleeRadius, "wolf")
        threat == w.org[nearbyWolves[1]]
        fleeX == s.x + Sign(s.x - threat.x) * SheepMovementRange
        fleeY == s.y + Sign(s.y - threat.y) * SheepMovementRange
        nearbyGrass == FindNearbyOrganisms(w, s.x, s.y, SheepGrassSearchRadius, "grass")
        target == w.org[nearbyGrass[1]]
        grassX == s.x + Sign(target.x - s.x)
        grassY == s.y + Sign(target.y - s.y)
    IN  IF nearbyWolves # <<>> /\ FreeFor(w, fleeX, fleeY, "sheep")
        THEN {MoveOrganism(w, sid, fleeX, fleeY, "sheep")}
        ELSE IF /\ s.hunger >= SheepHungerThreshold
                /\ nearbyGrass # <<>>
                /\ FreeFor(w, grassX, grassY, "sheep")
        THEN {MoveOrganism(w, sid, grassX, grassY, "sheep")}
        ELSE RandomMove(w, sid, "sheep", SheepMovementRange, MoveAttempts)

RECURSIVE ProcessSheepMovementBatch(_, _)
ProcessSheepMovementBatch(w, ids) ==
    IF ids = <<>> THEN {w}
    ELSE UNION {ProcessSheepMovementBatch(w2, Tail(ids)) : w2 \in SheepMoveOne(w, Head(ids))}

\* findReproductionPairs: greedy pairing in list order, by Euclidean distance
RECURSIVE FindReproductionPairs(_, _, _, _, _)
FindReproductionPairs(w, ids, i, used, maxDistance) ==
    IF i > Len(ids) THEN <<>>
    ELSE LET a == w.org[ids[i]]
             Near(j) == LET b == w.org[ids[j]]
                        IN  /\ ids[j] \notin used
                            /\ (a.x - b.x) * (a.x - b.x) + (a.y - b.y) * (a.y - b.y)
                                 <= maxDistance * maxDistance
             js == {j \in (i + 1)..Len(ids) : Near(j)}
             j0 == CHOOSE j \in js : \A k \in js : j <= k
         IN  IF ids[i] \in used \/ js = {}
             THEN FindReproductionPairs(w, ids, i + 1, used, maxDistance)
             ELSE <<<<ids[i], ids[j0]>>>> \o
                  FindReproductionPairs(w, ids, i + 1, used \cup {ids[i], ids[j0]}, maxDistance)

\* createSheepOffspring: one draw of a neighbour cell, the offspring is placed only
\* when the drawn cell is free
CreateSheepOffspring(w, p1) ==
    LET a == w.org[p1]
        draws == RandomOffset(1) \X RandomOffset(1)
        Free(d) == FreeFor(w, a.x + d[1], a.y + d[2], "sheep")
        Born(d) == SetCellContent(
                       Allocate(w, NewAnimal("sheep", w.nextId, a.x + d[1], a.y + d[2],
                                             SheepBatchOffspringEnergy, SheepBatchOffspringCooldown)),
                       a.x + d[1], a.y + d[2], "sheep", w.nextId)
    IN  {Born(d) : d \in {e \in draws : Free(e)}}
        \cup (IF \E d \in draws : ~Free(d) THEN {w} ELSE {})

SheepReproductionRate == 100
WolfReproductionRate == 85

RECURSIVE ReproducePairs(_, _)
ReproducePairs(w, pairs) ==
    IF pairs = <<>> THEN {w}
    ELSE LET p == Head(pairs)
             Cooled(w2) == [w2 EXCEPT !.org[p[1]].reproductionCooldown = SheepBatchCooldown,
                                      !.org[p[2]].reproductionCooldown = SheepBatchCooldown]
         IN  UNION {IF success
                    THEN UNION {ReproducePairs(Cooled(w2), Tail(pairs)) :
                                w2 \in CreateSheepOffspring(w, p[1])}
                    ELSE ReproducePairs(w, Tail(pairs)) :
                    success \in RandomBelow(SheepReproductionRate, 1000)}

ProcessSheepReproductionBatch(w, ids) ==
    LET eligible == SelectSeq(ids, LAMBDA i : /\ w.org[i].reproductionCooldown = 0
                                              /\ w.org[i].energy >= SheepReproductionThreshold)
    IN  IF Len(eligible) < 2 THEN {w}
        ELSE ReproducePairs(w, FindReproductionPairs(w, eligible, 1, {}, SheepPairDistance))

(***************************************************************************)
(* StepProcessor: the wolf pass.                                           *)
(***************************************************************************)
MoveTowardTarget(w, wid, targetX, targetY) ==
    LET o == w.org[wid]
        newX == o.x + Sign(targetX - o.x)
        newY == o.y + Sign(targetY - o.y)
    IN  IF FreeFor(w, newX, newY, "wolf") THEN MoveOrganism(w, wid, newX, newY, "wolf") ELSE w

\* the hunting turn of a wolf that forgets to reset its hunger after the kill
WolfHuntOneStillHungry(w, wid) ==
    LET o == w.org[wid]
        nearbySheep == FindNearbyOrganisms(w, o.x, o.y, WolfHuntingRadius, "sheep")
        target == w.org[nearbySheep[1]]
        distance2 == (target.x - o.x) * (target.x - o.x) + (target.y - o.y) * (target.y - o.y)
        aimed == [w EXCEPT !.org[wid].huntingTarget = target.id, !.org[wid].huntingKey = TRUE,
                           !.log.hunts = Append(@, [wolf |-> wid, sheep |-> target.id,
                                                    distance2 |-> distance2])]
        killed == DeleteSlot(RecordDeath(aimed, target.id, "hunting"), target.x, target.y, "sheep")
    IN  IF nearbySheep = <<>>
        THEN [w EXCEPT !.org[wid].huntingTarget = 0, !.org[wid].huntingKey = TRUE]
        ELSE IF distance2 <= 1
        THEN [killed EXCEPT !.org[wid].energy = @ + WolfEnergyPerSheep,
                            !.org[wid].huntingTarget = 0,
                            !.log.ate = @ \cup {wid}]
        ELSE MoveTowardTarget(aimed, wid, target.x, target.y)

\* the hunting turn of a wolf that also reaches the diagonal neighbours
WolfHuntOneDiagonal(w, wid) ==
    LET o == w.org[wid]
        nearbySheep == FindNearbyOrganisms(w, o.x, o.y, WolfHuntingRadius, "sheep")
        target == w.org[nearbySheep[1]]
        distance2 == (target.x - o.x) * (target.x - o.x) + (target.y - o.y) * (target.y - o.y)
        aimed == [w EXCEPT !.org[wid].huntingTarget = target.id, !.org[wid].huntingKey = TRUE,
                           !.log.hunts = Append(@, [wolf |-> wid, sheep |-> target.id,
                                                    distance2 |-> distance2])]
        killed == DeleteSlot(RecordDeath(aimed, target.id, "hunting"), target.x, target.y, "sheep")
    IN  IF nearbySheep = <<>>
        THEN [w EXCEPT !.org[wid].huntingTarget = 0, !.org[wid].huntingKey = TRUE]
        ELSE IF distance2 <= 2
        THEN [killed EXCEPT !.org[wid].energy = @ + WolfEnergyPerSheep,
                            !.org[wid].hunger = 0,
                            !.org[wid].huntingTarget = 0,
                            !.log.ate = @ \cup {wid}]
        ELSE MoveTowardTarget(aimed, wid, target.x, target.y)

\* the hunting turn of one hungry wolf; log.hunts notes the sheep it aimed at and
\* the squared distance to it
WolfHuntOne(w, wid) ==
    LET o == w.org[wid]
        nearbySheep == FindNearbyOrganisms(w, o.x, o.y, WolfHuntingRadius, "sheep")
        target == w.org[nearbySheep[1]]
        distance2 == (target.x - o.x) * (target.x - o.x) + (target.y - o.y) * (target.y - o.y)
        aimed == [w EXCEPT !.org[wid].huntingTarget = target.id, !.org[wid].huntingKey = TRUE,
                           !.log.hunts = Append(@, [wolf |-> wid, sheep |-> target.id,
                                                    distance2 |-> distance2])]
        killed == DeleteSlot(RecordDeath(aimed, target.id, "hunting"), target.x, target.y, "sheep")
    IN  IF nearbySheep = <<>>
        THEN [w EXCEPT !.org[wid].huntingTarget = 0, !.org[wid].huntingKey = TRUE]
        ELSE IF distance2 <= 1
        THEN [killed EXCEPT !.org[wid].energy = @ + WolfEnergyPerSheep,
                            !.org[wid].hunger = 0,
                            !.org[wid].huntingTarget = 0,
                            !.log.ate = @ \cup {wid}]
        ELSE MoveTowardTarget(aimed, wid, target.x, target.y)

RECURSIVE WolfHuntEach(_, _)
WolfHuntEach(w, ids) ==
    IF ids = <<>> THEN w ELSE WolfHuntEach(WolfHuntOne(w, Head(ids)), Tail(ids))

ProcessWolfHuntingBatch(w, ids) ==
    WolfHuntEach(w, SelectSeq(ids, LAMBDA i : w.org[i].hunger >= WolfHungerThreshold))

WolfMoveOne(w, wid) ==
    LET o == w.org[wid]
        isHungry == o.hunger * 10 >= WolfHungerThreshold * 4
        searchRadius == IF isHungry THEN WolfHuntingRadius ELSE (WolfHuntingRadius * 7) \div 10
        nearbySheep == FindNearbyOrganisms(w, o.x, o.y, searchRadius, "sheep")
        target == w.org[nearbySheep[1]]
        moveDistance == Min(WolfChaseDistance, WolfMovementRange)
        newX == o.x + Sign(target.x - o.x) * moveDistance
        newY == o.y + Sign(target.y - o.y) * moveDistance
    IN  IF nearbySheep # <<>> /\ FreeFor(w, newX, newY, "wolf")
        THEN {MoveOrganism(w, wid, newX, newY, "wolf")}
        ELSE RandomMove(w, wid, "wolf", WolfMovementRange, MoveAttempts)

RECURSIVE WolfMoveEach(_, _)
WolfMoveEach(w, ids) ==
    IF ids = <<>> THEN {w}
    ELSE UNION {WolfMoveEach(w2, Tail(ids)) : w2 \in WolfMoveOne(w, Head(ids))}

\* a movement pass that also moves the wolves with a hunting target
ProcessWolfMovementBatchAll(w, ids) == WolfMoveEach(w, ids)

ProcessWolfMovementBatch(w, ids) ==
    WolfMoveEach(w, SelectSeq(ids, LAMBDA i : w.org[i].huntingTarget = 0))

(***************************************************************************)
(* ReproductionProcessor.                                                  *)
(***************************************************************************)
ReproType(o) == IF o.grazingKey THEN "sheep" ELSE "wolf"

Repro(type) ==
    IF type = "sheep"
    THEN [minAge |-> SheepMinAge, maxAge |-> SheepMaxAge, minEnergy |-> SheepMinEnergy,
          cooldownPeriod |-> SheepCooldownPeriod, gestationPeriod |-> SheepGestationPeriod,
          energyCost |-> SheepEnergyCost, litterSizeMin |-> SheepLitterSizeMin,
          litterSizeMax |-> SheepLitterSizeMax, reproductionRate |-> SheepReproductionRate]
    ELSE [minAge |-> WolfMinAge, maxAge |-> WolfMaxAge, minEnergy |-> WolfMinEnergy,
          cooldownPeriod |-> WolfCooldownPeriod, gestationPeriod |-> WolfGestationPeriod,
          energyCost |-> WolfEnergyCost, litterSizeMin |-> WolfLitterSizeMin,
          litterSizeMax |-> WolfLitterSizeMax, reproductionRate |-> WolfReproductionRate]

\* an eligibility test without the cooldown
CanReproduceUncooled(o, type, step) ==
    /\ o.age >= Repro(type).minAge /\ o.age <= Repro(type).maxAge
    /\ o.energy >= Repro(type).minEnergy
    /\ o.isAlive

\* an eligibility test whose cooldown is over one tick after the mating
CanReproduceInHaste(o, type, step) ==
    /\ o.age >= Repro(type).minAge /\ o.age <= Repro(type).maxAge
    /\ o.energy >= Repro(type).minEnergy
    /\ step - o.reproductionState.lastMatingStep >= 1
    /\ o.isAlive

CanReproduce(o, type, step) ==
    /\ o.age >= Repro(type).minAge /\ o.age <= Repro(type).maxAge
    /\ o.energy >= Repro(type).minEnergy
    /\ step - o.reproductionState.lastMatingStep >= Repro(type).cooldownPeriod
    /\ o.isAlive

\* a mate search that takes any neighbour of the species
\* a mate search that takes any neighbour of the species
FindNearbyMatesAny(w, id, radius, type) ==
    LET o == w.org[id]
    IN  SelectSeq(GetOrganismsByType(w, type), LAMBDA p :
            /\ p # id
            /\ (w.org[p].x - o.x) * (w.org[p].x - o.x) + (w.org[p].y - o.y) * (w.org[p].y - o.y)
                 <= radius * radius)

FindNearbyMates(w, id, radius, type) ==
    LET o == w.org[id]
    IN  SelectSeq(GetOrganismsByType(w, type), LAMBDA p :
            /\ p # id
            /\ CanReproduce(w.org[p], type, w.step)
            /\ (w.org[p].x - o.x) * (w.org[p].x - o.x) + (w.org[p].y - o.y) * (w.org[p].y - o.y)
                 <= radius * radius)

\* the mating of two organisms: the draw against the energy-scaled rate, the choice
\* of the pregnant partner and the litter size
InitiateMating(w, id1, id2, step) ==
    LET type == ReproType(w.org[id1])
        sum == w.org[id1].energy + w.org[id2].energy
        \* reproductionRate * min(1, ((e1 + e2) / 2) ^ 2) as a fraction of 800000000
        rate == (Repro(type).reproductionRate \div 5) * Min(4000000, sum * sum)
        Pregnant(p, m, litter) ==
            [w EXCEPT !.org[p].reproductionState =
                          [present |-> TRUE, isPregnant |-> TRUE,
                           gestationRemaining |-> Repro(type).gestationPeriod,
                           expectedLitterSize |-> litter,
                           pregnancyEnergyCost |-> Repro(type).energyCost \div Repro(type).gestationPeriod,
                           mateId |-> m, lastMatingStep |-> step],
                      !.org[m].reproductionState.lastMatingStep = step,
                      !.log.matings = Append(@, [pregnant |-> p, mate |-> m, step |-> step,
                                                 before |-> <<w.org[p], w.org[m]>>]),
                      !.log.mated = @ \o <<[id |-> p, species |-> type, step |-> step, kind |-> "mating"],
                                           [id |-> m, species |-> type, step |-> step, kind |-> "mating"]>>]
    IN  UNION {IF success
               THEN {Pregnant(pm[1], pm[2], litter) :
                     pm \in {<<id1, id2>>, <<id2, id1>>},
                     litter \in Repro(type).litterSizeMin..Repro(type).litterSizeMax}
               ELSE {w} :
               success \in RandomBelow(rate, 800000000)}

AttemptMating(w, id, step) ==
    LET type == ReproType(w.org[id])
        proximity == IF type = "sheep" THEN SheepPartnerProximity ELSE WolfTerritoryRadius
        potentialMates == FindNearbyMates(w, id, proximity, type)
    IN  IF potentialMates # <<>> THEN InitiateMating(w, id, potentialMates[1], step) ELSE {w}

\* a search for a birth cell that only looks at the bounds of the grid
FindNearbyEmptyCellUnchecked(w, x, y, radius) ==
    LET side == 2 * radius + 1
        Key(c) == c[1] * side * side + (c[2] + radius) * side + (c[3] + radius)
        found == {c \in (1..radius) \X ((-radius)..radius) \X ((-radius)..radius) :
                    /\ Abs(c[2]) + Abs(c[3]) = c[1]
                    /\ IsValidPosition(x + c[2], y + c[3])}
        first == CHOOSE c \in found : \A d \in found : Key(c) <= Key(d)
    IN  IF found = {} THEN <<>> ELSE <<x + first[2], y + first[3]>>

\* the cells at Manhattan distance r = 1..radius in the order of the r, dx, dy loops
FindNearbyEmptyCell(w, x, y, radius) ==
    LET side == 2 * radius + 1
        Key(c) == c[1] * side * side + (c[2] + radius) * side + (c[3] + radius)
        found == {c \in (1..radius) \X ((-radius)..radius) \X ((-radius)..radius) :
                    /\ Abs(c[2]) + Abs(c[3]) = c[1]
                    /\ Abs(c[2]) <= c[1] /\ Abs(c[3]) <= c[1]
                    /\ FreeFor(w, x + c[2], y + c[3], "sheep")}
        first == CHOOSE c \in found : \A d \in found : Key(c) <= Key(d)
    IN  IF found = {} THEN <<>> ELSE <<x + first[2], y + first[3]>>

CreateOffspringOrganism(parent, x, y, id, type) ==
    IF type = "sheep"
    THEN NewAnimal("sheep", id, x, y, OffspringEnergy, 0)
    ELSE [NewAnimal("wolf", id, x, y, OffspringEnergy, 0) EXCEPT !.packId = parent.packId]

CreateOffspring(w, pid, step, type) ==
    LET parent == w.org[pid]
        birthLocation == FindNearbyEmptyCell(w, parent.x, parent.y, BirthRadius)
        child == CreateOffspringOrganism(parent, birthLocation[1], birthLocation[2], w.nextId, type)
        born == [Allocate(w, child) EXCEPT
                    !.log.births = Append(@, [parent |-> pid, child |-> child.id,
                                              x |-> child.x, y |-> child.y])]
    IN  IF birthLocation = <<>> THEN w
        ELSE SetCellContent(born, child.x, child.y, type, child.id)

RECURSIVE CreateLitter(_, _, _, _, _)
CreateLitter(w, pid, step, type, left) ==
    IF left <= 0 THEN w
    ELSE CreateLitter(CreateOffspring(w, pid, step, type), pid, step, type, left - 1)

GiveBirth(w, pid, step) ==
    LET type == ReproType(w.org[pid])
        litter == CreateLitter(w, pid, step, type, w.org[pid].reproductionState.expectedLitterSize)
    IN  [litter EXCEPT !.org[pid].reproductionState = NewReproductionState(step),
                       !.org[pid].reproductionCooldown = Repro(type).cooldownPeriod,
                       !.log.gaveBirth = @ \cup {pid},
                       !.log.mated = Append(@, [id |-> pid, species |-> type, step |-> step,
                                                kind |-> "birth"])]

\* a pregnancy step whose miscarriage takes the parent with it
ProcessPregnancyFatal(w, id, step) ==
    LET charged == [w EXCEPT !.org[id].energy = @ - w.org[id].reproductionState.pregnancyEnergyCost]
        carried == [charged EXCEPT !.org[id].reproductionState.gestationRemaining = @ - 1]
    IN  IF charged.org[id].energy <= MiscarriageEnergy
        THEN [RecordDeath(charged, id, "starvation") EXCEPT
                 !.org[id].reproductionState.isPregnant = FALSE,
                 !.org[id].isAlive = FALSE,
                 !.log.miscarried = @ \cup {id}]
        ELSE IF carried.org[id].reproductionState.gestationRemaining <= 0
        THEN GiveBirth(carried, id, step)
        ELSE carried

\* a pregnancy step that never gives birth
ProcessPregnancyOverdue(w, id, step) ==
    LET charged == [w EXCEPT !.org[id].energy = @ - w.org[id].reproductionState.pregnancyEnergyCost]
        carried == [charged EXCEPT !.org[id].reproductionState.gestationRemaining = @ - 1]
    IN  IF charged.org[id].energy <= MiscarriageEnergy
        THEN [RecordDeath(charged, id, "starvation") EXCEPT
                 !.org[id].reproductionState.isPregnant = FALSE,
                 !.log.miscarried = @ \cup {id}]
        ELSE carried

\* a pregnancy step that gives birth without waiting for the gestation to end
ProcessPregnancyHasty(w, id, step) ==
    LET charged == [w EXCEPT !.org[id].energy = @ - w.org[id].reproductionState.pregnancyEnergyCost]
        carried == [charged EXCEPT !.org[id].reproductionState.gestationRemaining = @ - 1]
    IN  IF charged.org[id].energy <= MiscarriageEnergy
        THEN [RecordDeath(charged, id, "starvation") EXCEPT
                 !.org[id].reproductionState.isPregnant = FALSE,
                 !.log.miscarried = @ \cup {id}]
        ELSE GiveBirth(carried, id, step)

ProcessPregnancy(w, id, step) ==
    LET charged == [w EXCEPT !.org[id].energy = @ - w.org[id].reproductionState.pregnancyEnergyCost]
        carried == [charged EXCEPT !.org[id].reproductionState.gestationRemaining = @ - 1]
    IN  IF charged.org[id].energy <= MiscarriageEnergy
        THEN [RecordDeath(charged, id, "starvation") EXCEPT
                 !.org[id].reproductionState.isPregnant = FALSE,
                 !.log.miscarried = @ \cup {id}]
        ELSE IF carried.org[id].reproductionState.gestationRemaining <= 0
        THEN GiveBirth(carried, id, step)
        ELSE carried

EnsureReproductionState(w, id, last) ==
    IF w.org[id].reproductionState.present THEN w
    ELSE [w EXCEPT !.org[id].reproductionState = NewReproductionState(last)]

RECURSIVE SheepReproduceEach(_, _, _)
SheepReproduceEach(w, ids, step) ==
    IF ids = <<>> THEN {w}
    ELSE LET id == Head(ids)
             w1 == EnsureReproductionState(w, id, 0)
             next == IF w1.org[id].reproductionState.isPregnant
                     THEN {ProcessPregnancy(w1, id, step)}
                     ELSE IF CanReproduce(w1.org[id], "sheep", step)
                     THEN AttemptMating(w1, id, step)
                     ELSE {w1}
         IN  UNION {SheepReproduceEach(w2, Tail(ids), step) : w2 \in next}

ProcessSheepReproduction(w, step) ==
    SheepReproduceEach(w, GetOrganismsByType(w, "sheep"), step)

RECURSIVE WolfPregnancies(_, _, _)
WolfPregnancies(w, ids, step) ==
    IF ids = <<>> THEN w
    ELSE LET id == Head(ids)
             w1 == EnsureReproductionState(w, id, -100)
             w2 == IF w1.org[id].packRole = "none" THEN [w1 EXCEPT !.org[id].packRole = "omega"] ELSE w1
         IN  WolfPregnancies(IF w2.org[id].reproductionState.isPregnant
                             THEN ProcessPregnancy(w2, id, step) ELSE w2,
                             Tail(ids), step)

\* groupWolvesByPack: the packs in the order their first member appears in the list
RECURSIVE PackOrder(_, _, _)
PackOrder(w, ids, seen) ==
    IF ids = <<>> THEN <<>>
    ELSE LET k == w.org[Head(ids)].packId
         IN  IF k \in seen THEN PackOrder(w, Tail(ids), seen)
             ELSE <<k>> \o PackOrder(w, Tail(ids), seen \cup {k})

RECURSIVE MatePairs(_, _, _, _)
MatePairs(w, eligible, i, step) ==
    IF i + 1 > Len(eligible) THEN {w}
    ELSE LET a == w.org[eligible[i]]
             b == w.org[eligible[i + 1]]
             next == IF Abs(a.x - b.x) + Abs(a.y - b.y) <= WolfTerritoryRadius
                     THEN InitiateMating(w, a.id, b.id, step) ELSE {w}
         IN  UNION {MatePairs(w2, eligible, i + 2, step) : w2 \in next}

\* a pack pass that takes the first two members of the pack for its alphas
ProcessPackReproductionAnyRole(w, pack, step) ==
    LET eligible == SelectSeq(pack, LAMBDA i : CanReproduce(w.org[i], "wolf", step))
    IN  IF w.config.alphaBreedingOnly
        THEN IF /\ Len(pack) >= 2
                /\ CanReproduce(w.org[pack[1]], "wolf", step)
                /\ CanReproduce(w.org[pack[2]], "wolf", step)
             THEN InitiateMating(w, pack[1], pack[2], step)
             ELSE {w}
        ELSE MatePairs(w, eligible, 1, step)

ProcessPackReproduction(w, pack, step) ==
    LET alphas == SelectSeq(pack, LAMBDA i : w.org[i].packRole = "alpha")
        eligible == SelectSeq(pack, LAMBDA i : CanReproduce(w.org[i], "wolf", step))
    IN  IF w.config.alphaBreedingOnly
        THEN IF /\ Len(alphas) >= 2
                /\ CanReproduce(w.org[alphas[1]], "wolf", step)
                /\ CanReproduce(w.org[alphas[2]], "wolf", step)
             THEN InitiateMating(w, alphas[1], alphas[2], step)
             ELSE {w}
        ELSE MatePairs(w, eligible, 1, step)

RECURSIVE PacksReproduce(_, _, _, _)
PacksReproduce(w, wolves, packs, step) ==
    IF packs = <<>> THEN {w}
    ELSE LET pack == SelectSeq(wolves, LAMBDA i : w.org[i].packId = Head(packs))
         IN  UNION {PacksReproduce(w2, wolves, Tail(packs), step) :
                    w2 \in ProcessPackReproduction(w, pack, step)}

ProcessWolfReproduction(w, step) ==
    LET wolves == GetOrganismsByType(w, "wolf")
        w1 == WolfPregnancies(w, wolves, step)
    IN  PacksReproduce(w1, wolves, PackOrder(w1, wolves, {}), step)

(***************************************************************************)
(* ReproductionProcessor: grass seeds.                                     *)
(***************************************************************************)
GrassSpreadProbability == 300
GrassSeedViability == 700

\* Math.round of a point of the open disc of the radius: the offsets whose unit
\* square meets the disc
SeedOffsets(radius) ==
    {d \in RandomOffset(radius) \X RandomOffset(radius) :
        LET a == Max(2 * Abs(d[1]) - 1, 0)
            b == Max(2 * Abs(d[2]) - 1, 0)
        IN  a * a + b * b < 4 * radius * radius}

\* the ten attempts end at the first drawn cell that is valid and holds no grass;
\* <<>> is the null of ten failed draws
FindSeedLocation(w, g, radius) ==
    LET Free(d) == /\ IsValidPosition(g.x + d[1], g.y + d[2])
                   /\ w.cells[<<g.x + d[1], g.y + d[2]>>].grass = 0
    IN  {<<g.x + d[1], g.y + d[2]>> : d \in {e \in SeedOffsets(radius) : Free(e)}}
        \cup (IF \E d \in SeedOffsets(radius) : ~Free(d) THEN {<<>>} ELSE {})

PlantSeed(w, location, step) ==
    LET planted == Allocate(w, NewGrass(w.nextId, location[1], location[2], step))
    IN  SetCellContent([planted EXCEPT !.log.seeds = Append(@, location)],
                       location[1], location[2], "grass", w.nextId)

RECURSIVE SeedLoop(_, _, _, _)
SeedLoop(w, gid, step, left) ==
    IF left = 0 THEN {w}
    ELSE UNION {IF viable
                THEN UNION {SeedLoop(IF loc = <<>> THEN w ELSE PlantSeed(w, loc, step),
                                     gid, step, left - 1) :
                            loc \in FindSeedLocation(w, w.org[gid], GrassReproSpreadRadius)}
                ELSE SeedLoop(w, gid, step, left - 1) :
                viable \in RandomBelow(GrassSeedViability, 1000)}

SpreadSeeds(w, gid, step) ==
    {[w2 EXCEPT !.org[gid].lastSpreadStep = step] :
     w2 \in SeedLoop(w, gid, step, GrassMaxSeedsPerStep)}

\* the conditions of canSpreadSeeds before its random draw
CanSpreadSeeds(g, step) ==
    /\ g.density >= GrassReproMinDensity
    /\ g.growthStage = "mature"
    /\ step - g.lastSpreadStep >= GrassReproMinInterval

RECURSIVE GrassReproduceEach(_, _, _)
GrassReproduceEach(w, ids, step) ==
    IF ids = <<>> THEN {w}
    ELSE LET next == IF CanSpreadSeeds(w.org[Head(ids)], step)
                     THEN UNION {IF draw THEN SpreadSeeds(w, Head(ids), step) ELSE {w} :
                                 draw \in RandomBelow(GrassSpreadProbability, 1000)}
                     ELSE {w}
         IN  UNION {GrassReproduceEach(w2, Tail(ids), step) : w2 \in next}

ProcessGrassReproduction(w, step) ==
    GrassReproduceEach(w, GetOrganismsByType(w, "grass"), step)

(***************************************************************************)
(* World: statistics and the step counter.                                 *)
(***************************************************************************)
RECURSIVE SumEnergy(_, _)
SumEnergy(w, ids) == IF ids = <<>> THEN 0 ELSE w.org[Head(ids)].energy + SumEnergy(w, Tail(ids))

\* an updateStatistics that leaves the counts of the last scan
UpdateStatisticsStale(w, stats) ==
    [stats EXCEPT !.totalEnergy = SumEnergy(w, GetOrganismsByType(w, "grass")
                                               \o GetOrganismsByType(w, "sheep")
                                               \o GetOrganismsByType(w, "wolf"))]

UpdateStatistics(w, stats) ==
    LET grass == GetOrganismsByType(w, "grass")
        sheep == GetOrganismsByType(w, "sheep")
        wolves == GetOrganismsByType(w, "wolf")
    IN  [stats EXCEPT !.grassCount = Len(grass), !.sheepCount = Len(sheep),
                      !.wolfCount = Len(wolves),
                      !.totalEnergy = SumEnergy(w, grass \o sheep \o wolves)]

UpdateSeason(step) ==
    IF step < SeasonLength THEN "spring"
    ELSE IF step < SeasonLength * 2 THEN "summer"
    ELSE IF step < SeasonLength * 3 THEN "autumn"
    ELSE IF step < SeasonLength * 4 THEN "winter"
    ELSE "spring"

UpdateTemperature(s) ==
    CASE s = "spring" -> BaseTemperature + 5
      [] s = "summer" -> BaseTemperature + 15
      [] s = "autumn" -> BaseTemperature + 5
      [] s = "winter" -> BaseTemperature - 10

(***************************************************************************)
(* EcologicalAnalyzer: the oscillation detector, for the series of one     *)
(* species.  peakInTrend and minInTrend are 0 while undefined, which the   *)
(* code's !state.peakInTrend and (state.peakInTrend || 0) read alike.      *)
(***************************************************************************)
HistoryCapacity == 100
TrendWindow == 5
CycleCapacity == 50
MinCycleDuration == 3
MinCycleAmplitude == 5
NearExtinction == 10

InitialSpeciesState ==
    [trend |-> "stable", trendStartStep |-> 0, trendStartPopulation |-> 0,
     peakInTrend |-> 0, minInTrend |-> 0]

\* change = (last - first) / first against +-0.15, first and last the means of the
\* first two and the last two counts; a first of 0 divides by zero (Infinity, NaN)
DetectTrend(recent) ==
    LET first2 == recent[1] + recent[2]
        last2 == recent[Len(recent) - 1] + recent[Len(recent)]
    IN  IF Len(recent) < 3 THEN "stable"
        ELSE IF first2 = 0 THEN (IF last2 > 0 THEN "increasing" ELSE "stable")
        ELSE IF 20 * (last2 - first2) > 3 * first2 THEN "increasing"
        ELSE IF 20 * (last2 - first2) < -(3 * first2) THEN "decreasing"
        ELSE "stable"

\* recordOscillationCycle without the filter on duration and amplitude
RecordOscillationCycleUnfiltered(cycles, species, state, currentPop, step, newTrend) ==
    LET duration == step - state.trendStartStep
        amplitude == state.peakInTrend - state.minInTrend
        cycleType ==
            IF state.trend = "increasing" /\ newTrend = "decreasing" THEN "growth_to_decline"
            ELSE IF state.trend = "decreasing" /\ newTrend = "increasing"
            THEN IF state.minInTrend # 0 /\ state.minInTrend < NearExtinction
                 THEN "near_extinction_recovery" ELSE "decline_to_growth"
            ELSE "none"
        cycle == [species |-> IF species = "wolves" THEN "wolf" ELSE species,
                  cycleType |-> cycleType,
                  startStep |-> state.trendStartStep, endStep |-> step,
                  startPopulation |-> state.trendStartPopulation, endPopulation |-> currentPop,
                  peakPopulation |-> state.peakInTrend, minPopulation |-> state.minInTrend,
                  duration |-> duration, amplitude |-> amplitude]
        pushed == Append(cycles, cycle)
    IN  IF cycleType = "none" THEN cycles
        ELSE IF Len(pushed) > CycleCapacity THEN Tail(pushed) ELSE pushed

RecordOscillationCycle(cycles, species, state, currentPop, step, newTrend) ==
    LET duration == step - state.trendStartStep
        amplitude == state.peakInTrend - state.minInTrend
        cycleType ==
            IF state.trend = "increasing" /\ newTrend = "decreasing" THEN "growth_to_decline"
            ELSE IF state.trend = "decreasing" /\ newTrend = "increasing"
            THEN IF state.minInTrend # 0 /\ state.minInTrend < NearExtinction
                 THEN "near_extinction_recovery" ELSE "decline_to_growth"
            ELSE "none"
        cycle == [species |-> IF species = "wolves" THEN "wolf" ELSE species,
                  cycleType |-> cycleType,
                  startStep |-> state.trendStartStep, endStep |-> step,
                  startPopulation |-> state.trendStartPopulation, endPopulation |-> currentPop,
                  peakPopulation |-> state.peakInTrend, minPopulation |-> state.minInTrend,
                  duration |-> duration, amplitude |-> amplitude]
        pushed == Append(cycles, cycle)
    IN  IF cycleType = "none" THEN cycles
        ELSE IF duration > MinCycleDuration /\ amplitude > MinCycleAmplitude
        THEN IF Len(pushed) > CycleCapacity THEN Tail(pushed) ELSE pushed
        ELSE cycles

\* the species state and the cycles after detectSpeciesOscillation
DetectSpeciesOscillation(history, state, cycles, species, currentPop, step) ==
    LET recent == SubSeq(history, Len(history) - TrendWindow + 1, Len(history))
        newTrend == DetectTrend(recent)
        tracked == [state EXCEPT
                       !.peakInTrend = IF @ = 0 \/ currentPop > @ THEN currentPop ELSE @,
                       !.minInTrend = IF @ = 0 \/ currentPop < @ THEN currentPop ELSE @]
    IN  IF Len(history) < TrendWindow
        THEN [state |-> [state EXCEPT !.trendStartStep = step, !.trendStartPopulation = currentPop],
              cycles |-> cycles]
        ELSE IF newTrend # tracked.trend /\ newTrend # "stable"
        THEN [state |-> [trend |-> newTrend, trendStartStep |-> step,
                         trendStartPopulation |-> currentPop,
                         peakInTrend |-> currentPop, minInTrend |-> currentPop],
              cycles |-> RecordOscillationCycle(cycles, species, tracked, currentPop, step, newTrend)]
        ELSE [state |-> tracked, cycles |-> cycles]

InitAnalyzer ==
    /\ populationHistory = <<>>
    /\ speciesStates = InitialSpeciesState
    /\ oscillationCycles = <<>>
    /\ extinctionAnalyses = <<>>
    /\ alerts = <<>>

\* recordPopulation(step, stats) with the next count of the series
RecordPopulation ==
    /\ pc = "analyzer"
    /\ feed.next <= Len(feed.series)
    /\ LET currentPop == feed.series[feed.next]
           step == feed.next
           pushed == Append(populationHistory, currentPop)
           history == IF Len(pushed) > HistoryCapacity THEN Tail(pushed) ELSE pushed
           r == DetectSpeciesOscillation(history, speciesStates, oscillationCycles,
                                         feed.species, currentPop, step)
       IN  /\ populationHistory' = history
           /\ speciesStates' = r.state
           /\ oscillationCycles' = r.cycles
           /\ feed' = [feed EXCEPT !.next = @ + 1]
    /\ UNCHANGED <<width, height, cells, org, currentStep, spStep, season, temperature,
                   statistics, deathStats, nextId, pc, batch, log, extinctionAnalyses, alerts,
                   config, engine, maxSteps, returned>>

(***************************************************************************)
(* Seeding: a world is built by placing organisms in the cells of an empty *)
(* grid, as WorldInitializer and the callers of setCellContent do.         *)
(***************************************************************************)
\* the number of ticks run from a seeded world, and the step at which a world that
\* has already run is seeded
MaxTick == 2
StartStep == 5

EmptyLog ==
    [overwritten |-> 0, deaths |-> <<>>, born |-> {}, moves |-> <<>>, ate |-> {},
     grazed |-> <<>>, hunts |-> <<>>, matings |-> <<>>, births |-> <<>>,
     gaveBirth |-> {}, miscarried |-> {}, seeds |-> <<>>, spread |-> <<>>, atStart |-> <<>>,
     culled |-> <<>>, mated |-> <<>>]

\* OrganismFactory.createSheep with the given attributes
SeedSheep(id, x, y, p) ==
    [NewAnimal("sheep", id, x, y, p.energy, p.cooldown) EXCEPT
        !.age = p.age, !.hunger = p.hunger, !.reproductionState = p.rs]

\* OrganismFactory.createWolf with the given attributes
SeedWolf(id, x, y, p) ==
    [NewAnimal("wolf", id, x, y, p.energy, p.cooldown) EXCEPT
        !.age = p.age, !.hunger = p.hunger, !.reproductionState = p.rs,
        !.huntingKey = TRUE, !.packId = p.packId, !.packRole = p.packRole]

\* OrganismFactory.createGrass with the given density
SeedGrass(id, x, y, p) ==
    [NewGrass(id, x, y, p.lastSpreadStep) EXCEPT
        !.density = p.density, !.growthStage = GetGrowthStage(p.density), !.energy = p.density]

SeedOrganism(id, s) ==
    IF s.t = "grass" THEN SeedGrass(id, s.x, s.y, s.p)
    ELSE IF s.t = "sheep" THEN SeedSheep(id, s.x, s.y, s.p)
    ELSE SeedWolf(id, s.x, s.y, s.p)

\* the grid after the placements of the list, the i-th organism having id i
SeedCells(w0, h0, placed) ==
    [pos \in (0..(w0 - 1)) \X (0..(h0 - 1)) |->
        [t \in Species |->
            LET is == {i \in DOMAIN placed : placed[i].t = t /\ <<placed[i].x, placed[i].y>> = pos}
            IN  IF is = {} THEN 0 ELSE CHOOSE i \in is : TRUE]]

InitialStatistics ==
    [totalSteps |-> 0, grassCount |-> 0, sheepCount |-> 0, wolfCount |-> 0, totalEnergy |-> 0,
     extinctionEvents |-> <<>>]

\* the matings and births that the seeded animals have behind them: one for each
\* animal whose lastMatingStep is a step of the run so far
SeededMatings(placed) ==
    LET ids == SelectSeq([i \in 1..Len(placed) |-> i],
                         LAMBDA i : placed[i].t # "grass" /\ placed[i].p.rs.lastMatingStep >= 1)
    IN  [k \in 1..Len(ids) |->
            [id |-> ids[k], species |-> placed[ids[k]].t,
             step |-> placed[ids[k]].p.rs.lastMatingStep, kind |-> "seeded"]]

InitGrid(w0, h0, step0, placed) ==
    /\ width = w0
    /\ height = h0
    /\ cells = SeedCells(w0, h0, placed)
    /\ org = [i \in DOMAIN placed |-> SeedOrganism(i, placed[i])]
    /\ currentStep = step0
    /\ spStep = step0
    /\ season = UpdateSeason(step0)
    /\ temperature = IF step0 = 0 THEN BaseTemperature ELSE UpdateTemperature(UpdateSeason(step0))
    /\ statistics = [InitialStatistics EXCEPT !.totalSteps = step0]
    /\ nextId = Len(placed) + 1
    /\ batch = <<>>
    /\ log = [EmptyLog EXCEPT !.mated = SeededMatings(placed)]

NoFeed == [species |-> "sheep", series |-> <<>>, next |-> 1]

\* a seeded world that is ticked `ticks` times
InitRunWith(w0, h0, step0, placed, ticks, cfg) ==
    /\ InitGrid(w0, h0, step0, placed)
    /\ deathStats = InitializeDeathStats
    /\ pc = "idle"
    /\ InitAnalyzer
    /\ feed = NoFeed
    /\ maxSteps = step0 + ticks
    /\ config = cfg
    /\ engine = NewEngine(step0)
    /\ returned = Undefined

InitRun(w0, h0, step0, placed, ticks) == InitRunWith(w0, h0, step0, placed, ticks, DefaultConfig)

InitWorld(w0, h0, step0, placed) == InitRun(w0, h0, step0, placed, MaxTick)

(***************************************************************************)
(* processStep, one action per pass of its pipeline.                       *)
(***************************************************************************)
World == [cells |-> cells, org |-> org, ds |-> deathStats, nextId |-> nextId, log |-> log,
          step |-> currentStep, season |-> season, temperature |-> temperature,
          config |-> config]

Put(w, nextPc, nextBatch) ==
    /\ cells' = w.cells
    /\ org' = w.org
    /\ deathStats' = w.ds
    /\ nextId' = w.nextId
    /\ log' = w.log
    /\ pc' = nextPc
    /\ batch' = nextBatch
    /\ UNCHANGED <<width, height, currentStep, season, temperature, statistics, analyzerVars, config, engine, maxSteps, returned>>

OnGrid(w) == {w.cells[pos][t] : pos \in DOMAIN w.cells, t \in Species} \ {0}

\* this.currentStep++ and processGrassBatch
StepGrass ==
    /\ pc = "idle"
    /\ spStep < maxSteps
    /\ spStep' = spStep + 1
    /\ \E w \in ProcessGrassBatch([World EXCEPT !.log = [EmptyLog EXCEPT
                   !.atStart = [i \in OnGrid(World) |-> org[i]],
                   !.mated = log.mated]]) :
           Put(w, "sheepAging", <<>>)

\* processSheepBatch: the snapshot and the aging loop
StepSheepAging ==
    /\ pc = "sheepAging"
    /\ LET sheep == GetOrganismsByType(World, "sheep")
       IN  IF sheep = <<>> THEN Put(World, "wolfAging", <<>>)
           ELSE Put(AgeAnimals(World, sheep, "sheep"), "sheepDeaths", sheep)
    /\ UNCHANGED spStep

\* processSheepBatch: processDeaths(sheep, 'sheep')
StepSheepDeaths ==
    /\ pc = "sheepDeaths"
    /\ LET r == ProcessDeaths(World, batch, "sheep", <<>>)
           w == [r.world EXCEPT !.log.culled = @ \o batch]
       IN  IF r.alive = <<>> THEN Put(w, "wolfAging", <<>>)
           ELSE Put(w, "sheepEating", r.alive)
    /\ UNCHANGED spStep

StepSheepEating ==
    /\ pc = "sheepEating"
    /\ Put(ProcessSheepEatingBatch(World, batch), "sheepMovement", batch)
    /\ UNCHANGED spStep

StepSheepMovement ==
    /\ pc = "sheepMovement"
    /\ \E w \in ProcessSheepMovementBatch(World, batch) : Put(w, "sheepReproduction", batch)
    /\ UNCHANGED spStep

StepSheepReproductionBatch ==
    /\ pc = "sheepReproduction"
    /\ \E w \in ProcessSheepReproductionBatch(World, batch) : Put(w, "wolfAging", <<>>)
    /\ UNCHANGED spStep

\* processWolvesBatch: the snapshot and the aging loop
StepWolfAging ==
    /\ pc = "wolfAging"
    /\ LET wolves == GetOrganismsByType(World, "wolf")
       IN  IF wolves = <<>> THEN Put(World, "reproduction", <<>>)
           ELSE Put(AgeAnimals(World, wolves, "wolf"), "wolfDeaths", wolves)
    /\ UNCHANGED spStep

StepWolfDeaths ==
    /\ pc = "wolfDeaths"
    /\ LET r == ProcessDeaths(World, batch, "wolf", <<>>)
           w == [r.world EXCEPT !.log.culled = @ \o batch]
       IN  IF r.alive = <<>> THEN Put(w, "reproduction", <<>>)
           ELSE Put(w, "wolfHunting", r.alive)
    /\ UNCHANGED spStep

StepWolfHunting ==
    /\ pc = "wolfHunting"
    /\ Put(ProcessWolfHuntingBatch(World, batch), "wolfMovement", batch)
    /\ UNCHANGED spStep

StepWolfMovement ==
    /\ pc = "wolfMovement"
    /\ \E w \in ProcessWolfMovementBatch(World, batch) : Put(w, "reproduction", <<>>)
    /\ UNCHANGED spStep

\* reproductionProcessor.processReproduction(this.currentStep)
StepSheepReproduction ==
    /\ pc = "reproduction"
    /\ \E w \in ProcessSheepReproduction(World, IF spStep # 0 THEN spStep ELSE currentStep) :
           Put(w, "wolfReproduction", <<>>)
    /\ UNCHANGED spStep

StepWolfReproduction ==
    /\ pc = "wolfReproduction"
    /\ \E w \in ProcessWolfReproduction(World, IF spStep # 0 THEN spStep ELSE currentStep) :
           Put(w, "grassReproduction", <<>>)
    /\ UNCHANGED spStep

StepGrassReproduction ==
    /\ pc = "grassReproduction"
    /\ \E w \in ProcessGrassReproduction(World, IF spStep # 0 THEN spStep ELSE currentStep) :
           Put(w, "finish", <<>>)
    /\ UNCHANGED spStep

\* world.updateStatistics() and world.incrementStep(); the objects that left the
\* grid are unreachable from here on
StepFinish ==
    /\ pc = "finish"
    /\ statistics' = [UpdateStatistics(World, statistics) EXCEPT !.totalSteps = @ + 1]
    /\ currentStep' = currentStep + 1
    /\ season' = UpdateSeason(currentStep + 1)
    /\ temperature' = UpdateTemperature(UpdateSeason(currentStep + 1))
    /\ org' = [i \in OnGrid(World) |-> org[i]]
    /\ pc' = "idle"
    /\ UNCHANGED <<width, height, cells, spStep, deathStats, nextId, batch, log, analyzerVars, config, engine, maxSteps, returned>>

ProcessStep ==
    \/ StepGrass
    \/ StepSheepAging
    \/ StepSheepDeaths
    \/ StepSheepEating
    \/ StepSheepMovement
    \/ StepSheepReproductionBatch
    \/ StepWolfAging
    \/ StepWolfDeaths
    \/ StepWolfHunting
    \/ StepWolfMovement
    \/ StepSheepReproduction
    \/ StepWolfReproduction
    \/ StepGrassReproduction
    \/ StepFinish

(***************************************************************************)
(* The seeded worlds of the pipeline specification: a 3 x 3 grid with a    *)
(* few organisms whose attributes sit next to the thresholds of the code.  *)
(***************************************************************************)
GridSide == 3

Animal(age, energy, hunger, cooldown) ==
    [age |-> age, energy |-> energy, hunger |-> hunger, cooldown |-> cooldown,
     rs |-> NewReproductionState(-100), packId |-> 1, packRole |-> "omega"]

Pregnant(p, gestation, litter, cost) ==
    [p EXCEPT !.rs = [NewReproductionState(StartStep - 1) EXCEPT
                         !.isPregnant = TRUE, !.gestationRemaining = gestation,
                         !.expectedLitterSize = litter, !.pregnancyEnergyCost = cost]]

Rested(p) == [p EXCEPT !.rs = NewReproductionState(StartStep - 1)]

SheepYoung == Animal(20, 1000, 0, 5)
SheepHungry == Rested(Animal(20, 500, 9, 5))
SheepStarving == Rested(Animal(20, 40, 3, 5))
SheepOld == Rested(Animal(99, 800, 3, 5))
SheepFamished == Rested(Animal(20, 800, 19, 5))
SheepDoomed == Rested(Animal(99, 40, 19, 5))
SheepDue == Pregnant(Animal(20, 800, 0, 5), 1, 2, 25)
SheepWeak == Pregnant(Animal(20, 260, 0, 5), 5, 2, 25)
SheepReady == Rested(Animal(20, 1000, 0, 0))
SheepSpent == Rested(Animal(20, 0, 3, 5))

WolfHungry == Rested(Animal(20, 500, 34, 0))
WolfRavenous == Rested(Animal(20, 500, 40, 0))
WolfSated == Rested(Animal(20, 900, 0, 0))
WolfOld == Rested(Animal(149, 900, 0, 0))
WolfStarving == Rested(Animal(20, 10, 40, 0))
WolfFamished == Rested(Animal(20, 900, 69, 0))
WolfYoung == Animal(20, 900, 0, 0)
WolfDue == Pregnant(Animal(20, 900, 0, 0), 1, 3, 40)
WolfWeak == Pregnant(Animal(20, 240, 34, 0), 3, 3, 40)

Grass(density) == [density |-> density, lastSpreadStep |-> 0]

Place(t, x, y, p) == [t |-> t, x |-> x, y |-> y, p |-> p]

Positions == (0..(GridSide - 1)) \X (0..(GridSide - 1))

\* a wolf in the middle of a 3 x 3 grid and one sheep anywhere
PredationWorlds ==
    {[w |-> GridSide, h |-> GridSide, step |-> StartStep,
      placed |-> <<Place("wolf", 1, 1, wp), Place("sheep", pos[1], pos[2], SheepYoung)>>] :
     wp \in {WolfHungry, WolfRavenous, WolfSated, WolfWeak}, pos \in Positions}

\* a hungry wolf in the middle of a 3 x 3 grid between two sheep
HerdWorlds ==
    {[w |-> GridSide, h |-> GridSide, step |-> StartStep,
      placed |-> <<Place("wolf", 1, 1, WolfRavenous), Place("sheep", 0, 0, SheepHungry),
                   Place("sheep", pos[1], pos[2], SheepYoung)>>] :
     pos \in {<<1, 0>>, <<1, 2>>, <<2, 1>>}}

\* two sheep and a wolf at their death thresholds, the wolf in the cell of a sheep
CullWorlds ==
    {[w |-> GridSide, h |-> GridSide, step |-> 0,
      placed |-> <<Place("sheep", 0, 0, s1), Place("sheep", 2, 2, SheepHungry),
                   Place("wolf", wpos[1], wpos[2], wp), Place("grass", 0, 0, Grass(850))>>] :
     s1 \in {SheepStarving, SheepOld, SheepFamished, SheepDoomed},
     wpos \in {<<0, 0>>, <<2, 1>>},
     wp \in {WolfOld, WolfStarving, WolfFamished}}

\* sheep that mate, carry, miscarry and give birth, on a 2 x 2 grid
BreedingWorlds ==
    {[w |-> 2, h |-> 2, step |-> StartStep,
      placed |-> <<Place("sheep", 0, 0, s1), Place("sheep", 1, 1, s2),
                   Place("grass", 1, 0, Grass(400))>>] :
     s1 \in {SheepYoung, SheepDue, SheepWeak, SheepReady},
     s2 \in {SheepYoung, SheepReady}}

\* a sheep about to give birth next to grass that spreads, on a 2 x 2 grid
PastureWorlds ==
    {[w |-> 2, h |-> 2, step |-> StartStep,
      placed |-> <<Place("sheep", 0, 0, SheepDue), Place("grass", 1, 1, Grass(d))>>] :
     d \in {850}}

\* a pack of wolves that mate and give birth, on a 2 x 2 grid
PackWorlds ==
    {[w |-> 2, h |-> 2, step |-> StartStep,
      placed |-> <<Place("wolf", 0, 0, w1), Place("wolf", 1, 1, w2)>>] :
     w1 \in {WolfYoung, WolfDue}, w2 \in {WolfYoung, WolfWeak}}

\* grass alone, on a 2 x 2 grid
MeadowWorlds ==
    {[w |-> 2, h |-> 2, step |-> st,
      placed |-> <<Place("grass", 1, 1, Grass(d1)), Place("grass", 0, 1, Grass(d2))>>] :
     st \in {0, StartStep}, d1 \in {750, 950}, d2 \in {100, 600}}

\* a row of sheep without energy, more of them than recentDeaths holds
FamineWorlds ==
    {[w |-> n, h |-> 1, step |-> 0,
      placed |-> [i \in 1..n |-> Place("sheep", i - 1, 0, IF i = 1 THEN first ELSE SheepSpent)]] :
     n \in {RecentDeathsCapacity, RecentDeathsCapacity + 2}, first \in {SheepSpent, SheepYoung}}

SeededWorlds ==
    FamineWorlds \cup PredationWorlds \cup HerdWorlds \cup CullWorlds \cup BreedingWorlds \cup PastureWorlds \cup PackWorlds \cup MeadowWorlds

Init == \E s \in SeededWorlds : InitWorld(s.w, s.h, s.step, s.placed)

Next == ProcessStep

Spec == Init /\ [][Next]_vars

(***************************************************************************)
(* The death ledger on its own: recordDeath called for any organism of the *)
(* world with any cause, between ticks of the step counter.  The ledger    *)
(* starts empty or two records short of the capacity of recentDeaths.      *)
(***************************************************************************)
MaxCalls == 3

\* the ledger after n recordDeath calls for organism o, each with cause starvation at step 0
Preloaded(o, n) ==
    [InitializeDeathStats EXCEPT
        !.totalDeaths = n,
        !.deathsByCause["starvation"] = n,
        !.deathsByType[GetOrganismType(o)] = n,
        !.recentDeaths = [i \in 1..n |-> DeathRecord(o, "starvation", 0)],
        !.sheepDeaths = IF GetOrganismType(o) = "sheep" THEN n ELSE 0,
        !.wolfDeaths = IF GetOrganismType(o) = "wolf" THEN n ELSE 0,
        !.grassDeaths = IF GetOrganismType(o) = "grass" THEN n ELSE 0]

LedgerWorld == <<Place("sheep", 0, 0, SheepYoung), Place("wolf", 1, 0, WolfYoung)>>

InitLedger ==
    /\ InitGrid(2, 1, 0, LedgerWorld)
    /\ \E n0 \in {0, RecentDeathsCapacity - 2} :
           deathStats = Preloaded(SeedOrganism(1, LedgerWorld[1]), n0)
    /\ pc = "ledger"
    /\ InitAnalyzer
    /\ feed = NoFeed
    /\ maxSteps = MaxTick
    /\ config = DefaultConfig
    /\ engine = NewEngine(0)
    /\ returned = Undefined

\* World.recordDeath(organism, cause)
RecordDeathCall ==
    /\ pc = "ledger"
    /\ IF deathStats.totalDeaths < RecentDeathsCapacity - 2
       THEN deathStats.totalDeaths < MaxCalls
       ELSE deathStats.totalDeaths < RecentDeathsCapacity - 2 + MaxCalls
    /\ \E id \in DOMAIN org, cause \in Causes :
           deathStats' = LedgerRecord(deathStats, org[id], cause, currentStep)
    /\ UNCHANGED <<width, height, cells, org, currentStep, spStep, season, temperature,
                   statistics, nextId, pc, batch, log, analyzerVars, config, engine, maxSteps, returned>>

\* World.incrementStep called directly
IncrementStep ==
    /\ pc \in {"ledger", "seasons"}
    /\ currentStep < maxSteps
    /\ currentStep' = currentStep + 1
    /\ statistics' = [statistics EXCEPT !.totalSteps = @ + 1]
    /\ season' = UpdateSeason(currentStep + 1)
    /\ temperature' = UpdateTemperature(UpdateSeason(currentStep + 1))
    /\ UNCHANGED <<width, height, cells, org, spStep,
                   deathStats, nextId, pc, batch, log, analyzerVars, config, engine, maxSteps, returned>>

NextLedger == RecordDeathCall \/ IncrementStep

SpecLedger == InitLedger /\ [][NextLedger]_vars

\* worlds seeded with grass only, ticked by processStep
InitGrass == \E s \in MeadowWorlds : InitWorld(s.w, s.h, s.step, s.placed)

\* processStep without sheep and wolves: processSheepBatch and processWolvesBatch
\* return after their snapshot, before the cull
NextGrass ==
    \/ StepGrass
    \/ StepSheepAging
    \/ StepWolfAging
    \/ StepSheepReproduction
    \/ StepWolfReproduction
    \/ StepGrassReproduction
    \/ StepFinish

SpecGrass == InitGrass /\ [][NextGrass]_vars

(***************************************************************************)
(* The oscillation detector on its own: recordPopulation is called once a  *)
(* tick with the next count of a series that rises for RiseTicks ticks and *)
(* then falls for as many.  Each half has two slopes and a tick at which   *)
(* the slope changes.                                                      *)
(***************************************************************************)
RiseTicks == 20

StartPopulations == {0, 1, 10, 150}

Slopes == {1, 3, 10, 30}

RiseBreaks == {RiseTicks \div 2, RiseTicks - 1}

FallBreaks == {1, RiseTicks \div 2}

\* the count at tick i of the series: p0, then RiseTicks rises, then RiseTicks falls
SeriesAt(p, i) ==
    LET up == Min(i - 1, RiseTicks)
        down == Max(i - 1 - RiseTicks, 0)
    IN  p.p0 + p.r1 * Min(up, p.kr) + p.r2 * Max(up - p.kr, 0)
             - p.f1 * Min(down, p.kf) - p.f2 * Max(down - p.kf, 0)

Series(p) == [i \in 1..(2 * RiseTicks + 1) |-> SeriesAt(p, i)]

SeriesShapes ==
    {p \in [p0 : StartPopulations, r1 : Slopes, r2 : Slopes, f1 : Slopes, f2 : Slopes,
            kr : RiseBreaks, kf : FallBreaks] : SeriesAt(p, 2 * RiseTicks + 1) >= 0}

InitOsc ==
    /\ InitGrid(1, 1, 0, <<>>)
    /\ deathStats = InitializeDeathStats
    /\ pc = "analyzer"
    /\ InitAnalyzer
    /\ maxSteps = 0
    /\ config = DefaultConfig
    /\ engine = NewEngine(0)
    /\ returned = Undefined
    /\ \E p \in SeriesShapes, sp \in {"sheep", "wolves"} :
          feed = [species |-> sp, series |-> Series(p), next |-> 1]

NextOsc == RecordPopulation

SpecOsc == InitOsc /\ [][NextOsc]_vars

(***************************************************************************)
(* Two sheep that can mate, as the factory makes them or with the cooldown *)
(* of the batch reproduction running, ticked for one gestation period and  *)
(* the tick of the mating.                                                 *)
(***************************************************************************)
ReproWorlds ==
    {[w |-> 2, h |-> 2, step |-> 0,
      placed |-> <<Place("sheep", 0, 0, s1), Place("sheep", pos[1], pos[2], s2)>>] :
     s1 \in {SheepYoung, SheepReady}, s2 \in {SheepYoung, SheepReady},
     pos \in {<<1, 0>>, <<1, 1>>}}

InitRepro ==
    \E s \in ReproWorlds : InitRun(s.w, s.h, s.step, s.placed, SheepGestationPeriod + 1)

\* processStep without wolves: processWolvesBatch returns after its snapshot
NextRepro ==
    \/ StepGrass
    \/ StepSheepAging
    \/ StepSheepDeaths
    \/ StepSheepEating
    \/ StepSheepMovement
    \/ StepSheepReproductionBatch
    \/ StepWolfAging
    \/ StepSheepReproduction
    \/ StepWolfReproduction
    \/ StepGrassReproduction
    \/ StepFinish

SpecRepro == InitRepro /\ [][NextRepro]_vars

(***************************************************************************)
(* Animals that mated or gave birth about one cooldown period ago, on a    *)
(* 2 x 2 grid, ticked CooldownTicks times.                                 *)
(***************************************************************************)
CooldownStart == 20
CooldownTicks == 3

\* an animal of breeding age and energy whose last mating or birth was `ago` ticks
\* before the seeding
MatedAgo(ago) == [Animal(30, 1000, 0, 0) EXCEPT !.rs = NewReproductionState(CooldownStart - ago)]

\* a sheep in the last tick of a gestation that began with a mating at its time
CarriedToTerm ==
    [Animal(30, 1000, 0, 0) EXCEPT
        !.rs = [NewReproductionState(CooldownStart - (SheepGestationPeriod - 1)) EXCEPT
                   !.isPregnant = TRUE, !.gestationRemaining = 1,
                   !.expectedLitterSize = SheepLitterSizeMin,
                   !.pregnancyEnergyCost = SheepEnergyCost \div SheepGestationPeriod]]

CooldownWorlds ==
    {[w |-> 2, h |-> 2, step |-> CooldownStart,
      placed |-> <<Place("sheep", 0, 0, CarriedToTerm),
                   Place("sheep", 1, 1, MatedAgo(SheepCooldownPeriod))>>]}
    \cup
    {[w |-> 2, h |-> 2, step |-> CooldownStart,
      placed |-> <<Place("sheep", 0, 0, MatedAgo(a1)), Place("sheep", 1, 1, MatedAgo(a2))>>] :
     a1 \in (SheepCooldownPeriod - 2)..SheepCooldownPeriod,
     a2 \in (SheepCooldownPeriod - 2)..SheepCooldownPeriod}
    \cup
    {[w |-> 2, h |-> 2, step |-> CooldownStart,
      placed |-> <<Place("wolf", 0, 0, MatedAgo(a1)), Place("wolf", 1, 1, MatedAgo(a2))>>] :
     a1 \in (WolfCooldownPeriod - 2)..WolfCooldownPeriod,
     a2 \in (WolfCooldownPeriod - 2)..WolfCooldownPeriod}

InitCooldown ==
    \E s \in CooldownWorlds : InitRun(s.w, s.h, s.step, s.placed, CooldownTicks)

SpecCooldown == InitCooldown /\ [][Next]_vars

(***************************************************************************)
(* Packs of wolves with and without alphaBreedingOnly: three wolves on a   *)
(* 2 x 2 grid, and two wolves on a strip longer than the territory radius. *)
(***************************************************************************)
PackTicks == 2

\* a wolf of breeding age and energy with a pack and a role
PackWolf(pack, role) == [WolfYoung EXCEPT !.packId = pack, !.packRole = role]

\* a wolf too young to breed
WolfCub == [Animal(2, 900, 0, 0) EXCEPT !.packId = 0]

PackRoleWorlds ==
    {[w |-> 2, h |-> 2, step |-> 0,
      placed |-> <<Place("wolf", 0, 0, PackWolf(0, r1)), Place("wolf", 1, 0, third),
                   Place("wolf", 1, 1, PackWolf(0, r3))>>] :
     r1 \in {"alpha", "omega"}, r3 \in {"alpha", "omega"},
     third \in {PackWolf(0, "alpha"), PackWolf(0, "omega"), PackWolf(1, "alpha"), WolfCub}}

\* two wolves at the ends of a strip, farther apart than the territory radius
TerritoryWorlds ==
    {[w |-> WolfTerritoryRadius + 2, h |-> 1, step |-> 0,
      placed |-> <<Place("wolf", 0, 0, PackWolf(0, "alpha")),
                   Place("wolf", WolfTerritoryRadius + 1, 0, PackWolf(0, "alpha"))>>]}

InitPack ==
    \E s \in PackRoleWorlds \cup TerritoryWorlds, flag \in BOOLEAN :
        InitRunWith(s.w, s.h, s.step, s.placed, PackTicks,
                    [DefaultConfig EXCEPT !.alphaBreedingOnly = flag])

\* processStep without sheep: processSheepBatch returns after its snapshot
NextPack ==
    \/ StepGrass
    \/ StepSheepAging
    \/ StepWolfAging
    \/ StepWolfDeaths
    \/ StepWolfHunting
    \/ StepWolfMovement
    \/ StepSheepReproduction
    \/ StepWolfReproduction
    \/ StepGrassReproduction
    \/ StepFinish

SpecPack == InitPack /\ [][NextPack]_vars

(***************************************************************************)
(* A world whose step counter is advanced through MaxSeasons seasons.      *)
(***************************************************************************)
MaxSeasons == 6

InitSeasons ==
    /\ InitGrid(2, 1, 0, LedgerWorld)
    /\ deathStats = InitializeDeathStats
    /\ pc = "seasons"
    /\ InitAnalyzer
    /\ feed = NoFeed
    /\ maxSteps = MaxSeasons * SeasonLength
    /\ config = DefaultConfig
    /\ engine = NewEngine(0)
    /\ returned = Undefined

NextSeasons == IncrementStep

SpecSeasons == InitSeasons /\ [][NextSeasons]_vars

(***************************************************************************)
(* The cell methods of World called directly, as a seeding loop or a test  *)
(* does, with coordinates up to Margin cells outside the grid.             *)
(***************************************************************************)
Margin == 1

Coordinates == ((-Margin)..(width - 1 + Margin)) \X ((-Margin)..(height - 1 + Margin))

CellWorld ==
    <<Place("grass", 0, 0, Grass(850)), Place("sheep", 0, 0, SheepYoung),
      Place("wolf", 1, 0, WolfYoung), Place("sheep", 1, 0, SheepHungry)>>

InitCells ==
    /\ InitGrid(2, 1, 0, CellWorld)
    /\ deathStats = InitializeDeathStats
    /\ pc = "cells"
    /\ InitAnalyzer
    /\ feed = NoFeed
    /\ maxSteps = 0
    /\ config = DefaultConfig
    /\ engine = NewEngine(0)
    /\ returned = Undefined

\* the call and what it returned
Call(method, x, y, id, value) ==
    [method |-> method, x |-> x, y |-> y, id |-> id, value |-> value]

\* world.getCell(x, y)
GetCellCall ==
    /\ pc = "cells"
    /\ \E c \in Coordinates : returned' = Call("getCell", c[1], c[2], 0, GetCell(World, c[1], c[2]))
    /\ UNCHANGED <<width, height, cells, org, currentStep, spStep, season, temperature,
                   statistics, deathStats, nextId, pc, batch, log, analyzerVars, config, engine, maxSteps>>

\* world.setCellContent(x, y, {[species]: organism}) with an organism of the heap
SetCellContentCall ==
    /\ pc = "cells"
    /\ \E c \in Coordinates, id \in DOMAIN org :
          /\ cells' = SetCellContent(World, c[1], c[2], org[id].species, id).cells
          /\ returned' = Call("setCellContent", c[1], c[2], id, IsValidPosition(c[1], c[2]))
    /\ UNCHANGED <<width, height, org, currentStep, spStep, season, temperature,
                   statistics, deathStats, nextId, pc, batch, log, analyzerVars, config, engine, maxSteps>>

\* world.clearCellContent(x, y)
ClearCellContentCall ==
    /\ pc = "cells"
    /\ \E c \in Coordinates :
          /\ cells' = ClearCellContent(World, c[1], c[2]).cells
          /\ returned' = Call("clearCellContent", c[1], c[2], 0, IsValidPosition(c[1], c[2]))
    /\ UNCHANGED <<width, height, org, currentStep, spStep, season, temperature,
                   statistics, deathStats, nextId, pc, batch, log, analyzerVars, config, engine, maxSteps>>

NextCells == GetCellCall \/ SetCellContentCall \/ ClearCellContentCall

SpecCells == InitCells /\ [][NextCells]_vars

TypeOK ==
    /\ pc \in {"idle", "sheepAging", "sheepDeaths", "sheepEating", "sheepMovement",
               "sheepReproduction", "wolfAging", "wolfDeaths", "wolfHunting", "wolfMovement",
               "reproduction", "wolfReproduction", "grassReproduction", "finish"}
    /\ \A pos \in DOMAIN cells : \A t \in Species : cells[pos][t] \in {0} \cup DOMAIN org

(***************************************************************************)
(* Properties.                                                             *)
(***************************************************************************)
AtEndOfTick == pc = "idle" /\ spStep > currentStep - 1 /\ statistics.totalSteps = currentStep /\ log.atStart # <<>>

\* C1: every organism stored in a cell has the coordinates of that cell, inside
\* the grid, is stored in no other slot, and no move, birth, spread or seed has
\* written into a slot that held another organism of the species.
C1_PositionsValidAndExclusive ==
    /\ \A pos \in DOMAIN cells : \A t \in Species :
          cells[pos][t] # 0 =>
              LET o == org[cells[pos][t]]
              IN  /\ 0 <= o.x /\ o.x < width /\ 0 <= o.y /\ o.y < height
                  /\ <<o.x, o.y>> = pos
                  /\ \A pos2 \in DOMAIN cells : \A t2 \in Species :
                        cells[pos2][t2] = cells[pos][t] => pos2 = pos /\ t2 = t
    /\ log.overwritten = 0

\* a tick in which an animal moved, an offspring was born, grass spread and a seed
\* was planted
C1_Witness ==
    /\ AtEndOfTick
    /\ Len(log.moves) > 0 /\ Len(log.births) > 0
    /\ Len(log.spread) > 0 /\ Len(log.seeds) > 0

Stored(t) == SeqToSet(GetOrganismsByType(World, t))

\* C2: at the end of a tick no organism named by a death record written in that
\* tick is stored in a cell, and every stored organism has isAlive = true.
C2_RecordedDeathsLeaveGrid ==
    AtEndOfTick =>
        /\ \A i \in DOMAIN log.deaths : log.deaths[i].organismId \notin OnGrid(World)
        /\ \A id \in OnGrid(World) : org[id].isAlive

\* the end of a tick in which a pregnant animal miscarried: its record is in the
\* ledger and the animal is stored in a cell, alive
C2_Witness ==
    /\ AtEndOfTick
    /\ \E id \in log.miscarried :
          /\ id \in OnGrid(World) /\ org[id].isAlive
          /\ \E i \in DOMAIN deathStats.recentDeaths :
                deathStats.recentDeaths[i].organismId = id

\* the cull step of either pass, compared with the three conditions in their order
CullStepInOrder ==
    pc \in {"sheepDeaths", "wolfDeaths"} =>
        LET type == IF pc = "sheepDeaths" THEN "sheep" ELSE "wolf"
            lifespan == IF type = "sheep" THEN SheepLifespan ELSE WolfLifespan
            threshold == IF type = "sheep" THEN SheepHungerThreshold ELSE WolfHungerThreshold
            written == SubSeq(log'.deaths, Len(log.deaths) + 1, Len(log'.deaths))
            Causes_(id) == SelectSeq(written, LAMBDA r : r.organismId = id)
            Removed(id, cause) ==
                /\ Len(Causes_(id)) = 1 /\ Causes_(id)[1].cause = cause
                /\ cells'[<<org[id].x, org[id].y>>][type] = 0
                /\ id \notin SeqToSet(batch')
        IN  \A i \in DOMAIN batch :
                LET o == org[batch[i]]
                IN  IF o.age >= lifespan THEN Removed(o.id, "age")
                    ELSE IF o.energy <= 0 THEN Removed(o.id, "starvation")
                    ELSE IF o.hunger >= 2 * threshold THEN Removed(o.id, "hunger")
                    ELSE /\ Causes_(o.id) = <<>>
                         /\ cells'[<<o.x, o.y>>][type] = o.id
                         /\ o.id \in SeqToSet(batch')
                         /\ org'[o.id].isAlive

C4_StarvedSheepRecorded ==
    AtEndOfTick =>
        \A id \in DOMAIN log.atStart :
            LET o == log.atStart[id]
            IN  (o.species = "sheep" /\ o.energy = 0 /\ o.age + 1 < SheepLifespan) =>
                    /\ id \notin Stored("sheep")
                    /\ \E i \in DOMAIN log.deaths :
                          /\ log.deaths[i].organismId = id
                          /\ log.deaths[i].cause = "starvation"
                          /\ Len(log.deaths) - i < RecentDeathsCapacity =>
                                \E j \in DOMAIN deathStats.recentDeaths :
                                    deathStats.recentDeaths[j] = log.deaths[i]

\* C4 as stated: the ledger holds the record after the tick
C4_StarvedSheepInLedger ==
    AtEndOfTick =>
        \A id \in DOMAIN log.atStart :
            LET o == log.atStart[id]
            IN  (o.species = "sheep" /\ o.energy = 0 /\ o.age + 1 < SheepLifespan) =>
                    /\ id \notin Stored("sheep")
                    /\ \E j \in DOMAIN deathStats.recentDeaths :
                          /\ deathStats.recentDeaths[j].organismId = id
                          /\ deathStats.recentDeaths[j].cause = "starvation"

\* the end of a tick that a sheep entered with energy 0, next to a sheep that lives on
C4_Witness ==
    /\ AtEndOfTick
    /\ Stored("sheep") # {}
    /\ \E id \in DOMAIN log.atStart :
          /\ log.atStart[id].species = "sheep" /\ log.atStart[id].energy = 0
          /\ \E j \in DOMAIN deathStats.recentDeaths :
                /\ deathStats.recentDeaths[j].organismId = id
                /\ deathStats.recentDeaths[j].cause = "starvation"

\* the pregnancy cost a wolf pays in a tick that it enters pregnant
CarriedCost(o) ==
    IF o.reproductionState.isPregnant THEN o.reproductionState.pregnancyEnergyCost ELSE 0

\* C5: a wolf that is hungry at its hunting turn and finds, first in the scan of
\* its hunting radius, a sheep at distance <= 1 has, at the end of the tick, removed
\* that sheep with a record of cause hunting, has hunger 0 and has its energy at
\* the start of the tick minus energyPerStep plus energyPerSheep, less the
\* pregnancy cost of a wolf that entered the tick pregnant.
C5_HuntInReach ==
    AtEndOfTick =>
        \A i \in DOMAIN log.hunts :
            LET h == log.hunts[i]
            IN  h.distance2 <= 1 =>
                    /\ h.sheep \notin OnGrid(World)
                    /\ \E j \in DOMAIN log.deaths :
                          log.deaths[j].organismId = h.sheep /\ log.deaths[j].cause = "hunting"
                    /\ h.wolf \in Stored("wolf")
                    /\ org[h.wolf].hunger = 0
                    /\ org[h.wolf].energy =
                          log.atStart[h.wolf].energy - WolfEnergyPerStep + WolfEnergyPerSheep
                              - CarriedCost(log.atStart[h.wolf])

\* a wolf that enters the tick hungry next to a sheep
HungryBesideSheep(wid, sid) ==
    LET wolf == log.atStart[wid]
        sheep == log.atStart[sid]
    IN  /\ wolf.species = "wolf" /\ sheep.species = "sheep"
        /\ wolf.hunger >= WolfHungerThreshold
        /\ Abs(wolf.x - sheep.x) + Abs(wolf.y - sheep.y) = 1
        /\ Abs(wolf.x - sheep.x) <= WolfHuntingRadius /\ Abs(wolf.y - sheep.y) <= WolfHuntingRadius

\* C5 as stated: the sheep next to a hungry wolf at the start of the tick is eaten
\* in the tick
C5_HungryWolfEatsNeighbour ==
    AtEndOfTick =>
        \A wid \in DOMAIN log.atStart : \A sid \in DOMAIN log.atStart :
            HungryBesideSheep(wid, sid) =>
                /\ sid \notin OnGrid(World)
                /\ wid \in DOMAIN org
                /\ org[wid].hunger = 0
                /\ org[wid].energy =
                      log.atStart[wid].energy - WolfEnergyPerStep + WolfEnergyPerSheep

\* the end of a tick in which a wolf that was hungry next to a sheep ate that sheep
C5_Witness ==
    /\ AtEndOfTick
    /\ \E i \in DOMAIN log.hunts :
          /\ log.hunts[i].distance2 <= 1
          /\ HungryBesideSheep(log.hunts[i].wolf, log.hunts[i].sheep)

(***************************************************************************)
(* C6: after any sequence of recordDeath calls recentDeaths holds at most  *)
(* RecentDeathsCapacity (50) records, and no call or tick lowers           *)
(* totalDeaths.                                                            *)
(***************************************************************************)
LedgerStepBounded ==
    /\ Len(deathStats.recentDeaths) <= RecentDeathsCapacity
    /\ Len(deathStats'.recentDeaths) <= RecentDeathsCapacity
    /\ deathStats'.totalDeaths >= deathStats.totalDeaths

\* C6: recentDeaths never holds more than 50 records and totalDeaths never
\* decreases from one recordDeath call or tick to the next
C6_LedgerBounded == [][LedgerStepBounded]_vars

\* the ledger is full and has dropped its oldest records
C6_Witness ==
    /\ pc = "ledger"
    /\ Len(deathStats.recentDeaths) = RecentDeathsCapacity
    /\ deathStats.totalDeaths > RecentDeathsCapacity
    /\ deathStats.deathsByCause["hunting"] > 0

(***************************************************************************)
(* C7: an animal that neither eats nor is created in a tick has, at every  *)
(* point of the tick and at its end, at most the energy it entered the     *)
(* tick with.                                                              *)
(***************************************************************************)
Fasting == {id \in DOMAIN log.atStart \cap DOMAIN org :
               log.atStart[id].species # "grass" /\ id \notin log.ate /\ id \notin log.born}

\* C7: the energy of an animal that has not eaten and was not created in the
\* tick is less than or equal to its energy at the start of the tick
C7_EnergyOnlyDecays ==
    \A id \in Fasting : org[id].energy <= log.atStart[id].energy

\* the end of a tick that a pregnant animal went through without eating: it
\* paid the metabolism and the cost of the pregnancy
C7_Witness ==
    /\ AtEndOfTick
    /\ \E id \in Fasting \cap OnGrid(World) :
          /\ CarriedCost(log.atStart[id]) > 0
          /\ org[id].energy = log.atStart[id].energy - EnergyPerStep(log.atStart[id].species)
                                  - CarriedCost(log.atStart[id])

(***************************************************************************)
(* C8: in a world seeded with grass only the number of grass organisms on  *)
(* the grid never decreases, so it stays above 0.                          *)
(***************************************************************************)
GrassCount == Cardinality(Stored("grass"))

GrassStepKeeps ==
    /\ GrassCount' >= GrassCount
    /\ GrassCount > 0 /\ GrassCount' > 0
    /\ Stored("sheep") = {} /\ Stored("wolf") = {}

\* C8: without sheep and wolves no step of a tick lowers the number of grass
\* organisms on the grid, and the number stays above 0
C8_GrassNeverDecreases == [][GrassStepKeeps]_vars

\* the end of a tick of a grass-only world in which grass spread and a seed was planted
C8_Witness ==
    /\ AtEndOfTick
    /\ Stored("sheep") = {} /\ Stored("wolf") = {}
    /\ statistics.sheepCount = 0 /\ statistics.wolfCount = 0
    /\ Len(log.spread) > 0 /\ Len(log.seeds) > 0
    /\ GrassCount > Cardinality({id \in DOMAIN log.atStart : log.atStart[id].species = "grass"})

(***************************************************************************)
(* C9: a series that rises for 20 ticks and then falls for 20 ticks, with  *)
(* peak minus trough above 5, leaves exactly one cycle, growth_to_decline. *)
(***************************************************************************)
SeriesFed == pc = "analyzer" /\ feed.next = Len(feed.series) + 1

RisesThenFalls ==
    /\ Len(feed.series) = 2 * RiseTicks + 1
    /\ \A i \in 1..RiseTicks : feed.series[i + 1] > feed.series[i]
    /\ \A i \in (RiseTicks + 1)..(2 * RiseTicks) : feed.series[i + 1] < feed.series[i]
    /\ feed.series[RiseTicks + 1] - Min(feed.series[1], feed.series[2 * RiseTicks + 1])
          > MinCycleAmplitude

\* C9 as stated: every series that rises for 20 ticks and falls for 20 ticks
\* leaves exactly one cycle, of type growth_to_decline
C9_ExactlyOneCycle ==
    SeriesFed /\ RisesThenFalls =>
        /\ Len(oscillationCycles) = 1
        /\ oscillationCycles[1].cycleType = "growth_to_decline"

\* the first tick at which the last five counts of the series are classified as
\* `trend`, 0 if there is none
FirstTick(trend) ==
    LET ticks == {i \in TrendWindow..Len(feed.series) :
                     DetectTrend(SubSeq(feed.series, i - TrendWindow + 1, i)) = trend}
    IN  IF ticks = {} THEN 0 ELSE CHOOSE i \in ticks : \A j \in ticks : i <= j

\* the series turns from increasing at tick s to decreasing at tick t, more than
\* 3 ticks later, with a swing above 5 between them
SwingQualifies ==
    LET s == FirstTick("increasing")
        t == FirstTick("decreasing")
        peak == CHOOSE m \in {feed.series[i] : i \in s..t} :
                    \A i \in s..t : feed.series[i] <= m
    IN  /\ s > 0 /\ t > s
        /\ t - s > MinCycleDuration
        /\ peak - Min(feed.series[s], feed.series[t]) > MinCycleAmplitude

\* C9, amended: at most one cycle, only of type growth_to_decline, and exactly
\* one if and only if the windows of five counts are first classified increasing
\* and later decreasing, more than 3 ticks apart and with a swing above 5
C9_OneCycleWhenTrendsFlip ==
    SeriesFed /\ RisesThenFalls =>
        /\ Len(oscillationCycles) <= 1
        /\ \A i \in DOMAIN oscillationCycles :
              /\ oscillationCycles[i].cycleType = "growth_to_decline"
              /\ oscillationCycles[i].species = (IF feed.species = "wolves" THEN "wolf" ELSE feed.species)
        /\ Len(oscillationCycles) = 1 <=> SwingQualifies

\* a fed series whose rise and fall were both noticed: one cycle, with the
\* peak of the series
C9_Witness ==
    /\ SeriesFed /\ RisesThenFalls
    /\ Len(oscillationCycles) = 1
    /\ oscillationCycles[1].cycleType = "growth_to_decline"
    /\ oscillationCycles[1].peakPopulation = feed.series[RiseTicks + 1]

\* fed series that leave no cycle: one whose fall is never classified decreasing,
\* one whose rise is noticed too late
C9_WitnessNoFall == SeriesFed /\ RisesThenFalls /\ FirstTick("decreasing") = 0

C9_WitnessLate ==
    /\ SeriesFed /\ RisesThenFalls /\ oscillationCycles = <<>>
    /\ FirstTick("increasing") > 0
    /\ FirstTick("decreasing") > FirstTick("increasing")

(***************************************************************************)
(* C10: two eligible sheep near each other can have, within one gestation  *)
(* period and the tick of the mating, a sheep with a new id on the grid.   *)
(***************************************************************************)
Parents == {1, 2}

\* a sheep born in this tick to one of the two sheep, on the grid, with an id of its own
Offspring ==
    {b \in SeqToSet(log.births) :
        /\ b.parent \in Parents
        /\ b.child \notin Parents
        /\ b.child \in Stored("sheep")}

\* a sheep of the start of the tick that carries its young through the last tick
\* of the gestation
Due(id) ==
    /\ id \in DOMAIN log.atStart /\ id \in Stored("sheep")
    /\ log.atStart[id].reproductionState.isPregnant
    /\ log.atStart[id].reproductionState.gestationRemaining = 1

\* C10: two eligible sheep near each other get offspring with ids of their own
\* within one gestation period plus the mating tick: a mother that ends the tick
\* in which her gestation runs out has given birth (or miscarried), every sheep
\* born is on the grid with an id different from both parents' and from every
\* organism of the start of the tick, and it is born gestationPeriod - 1 or
\* gestationPeriod steps after the mating, in tick gestationPeriod or
\* gestationPeriod + 1 of the run
C10_OffspringAfterGestation ==
    /\ AtEndOfTick =>
          \A id \in Parents : Due(id) => id \in log.gaveBirth \cup log.miscarried
    /\ \A i \in DOMAIN log.births :
          LET b == log.births[i]
          IN  /\ b \in Offspring
              /\ b.child \notin DOMAIN log.atStart
              /\ b.parent \in log.gaveBirth
              /\ log.atStart[b.parent].reproductionState.isPregnant
              /\ log.atStart[b.parent].reproductionState.gestationRemaining = 1
              /\ spStep - log.atStart[b.parent].reproductionState.lastMatingStep
                    \in {SheepGestationPeriod - 1, SheepGestationPeriod}
              /\ spStep \in {SheepGestationPeriod, SheepGestationPeriod + 1}

\* within one gestation period plus the mating tick the grid holds a sheep whose
\* id is neither parent's
C10_Witness ==
    /\ AtEndOfTick
    /\ currentStep <= SheepGestationPeriod + 1
    /\ Offspring # {}
    /\ \A id \in Parents : log.atStart[id].age >= SheepMinAge /\ log.atStart[id].age <= SheepMaxAge

(***************************************************************************)
(* C11: a removal from or a write into a cell for one species leaves the   *)
(* organisms of the other two species of that cell in place.               *)
(***************************************************************************)
SlotsKept(kept) ==
    \A pos \in DOMAIN cells : \A t \in kept : cells'[pos][t] = cells[pos][t]

CellWritesKeepOthers ==
    /\ pc \in {"sheepDeaths", "sheepMovement", "sheepReproduction"} => SlotsKept({"grass", "wolf"})
    /\ pc \in {"wolfDeaths", "wolfMovement"} => SlotsKept({"grass", "sheep"})

\* C11: the cull, the moves and the births of sheep change no grass and no wolf
\* slot of any cell, and the cull and the moves of wolves no grass and no sheep slot
C11_CellWritesKeepOtherSpecies == [][CellWritesKeepOthers]_vars

\* the end of a tick in which grass left the grid without a record and without
\* being eaten up, from the cell in which an animal was culled
C11_Witness ==
    /\ AtEndOfTick
    /\ \E g \in DOMAIN log.atStart :
          /\ log.atStart[g].species = "grass"
          /\ g \notin OnGrid(World)
          /\ \A i \in DOMAIN log.deaths : log.deaths[i].organismId # g
          /\ \E i \in DOMAIN log.deaths :
                /\ log.deaths[i].cause \in {"age", "starvation", "hunger"}
                /\ log.deaths[i].x = log.atStart[g].x /\ log.deaths[i].y = log.atStart[g].y

(***************************************************************************)
(* C12: outside the grid getCell returns null, setCellContent and          *)
(* clearCellContent return false, and the grid is left as it was.          *)
(***************************************************************************)
OutOfBoundsCall ==
    /\ returned' # Undefined
    /\ ~IsValidPosition(returned'.x, returned'.y)

OutOfBoundsRefused ==
    OutOfBoundsCall =>
        /\ returned'.method = "getCell" => returned'.value = Null
        /\ returned'.method \in {"setCellContent", "clearCellContent"} => returned'.value = FALSE
        /\ cells' = cells /\ org' = org

\* C12: a call of getCell, setCellContent or clearCellContent with coordinates
\* outside [0, width) x [0, height) returns null or false and changes no cell
C12_OutOfBoundsRefused == [][OutOfBoundsRefused]_vars

\* a write outside the grid, refused, with organisms stored on the grid
C12_Witness ==
    /\ pc = "cells"
    /\ returned # Undefined
    /\ returned.method = "setCellContent"
    /\ returned.x = width /\ returned.y = -1
    /\ returned.value = FALSE
    /\ OnGrid(World) # {}

(***************************************************************************)
(* C13: seeding an organism at an invalid position, or into a cell that    *)
(* holds an organism of its species, returns false and leaves the cell.    *)
(***************************************************************************)
SeedingRejected == returned'.value = FALSE /\ cells' = cells

\* the write of organism returned'.id into a cell outside the grid or into a
\* cell that holds another organism of its species
SeedingOntoOccupied ==
    /\ returned' # Undefined
    /\ returned'.method = "setCellContent"
    /\ \/ ~IsValidPosition(returned'.x, returned'.y)
       \/ cells[<<returned'.x, returned'.y>>][org[returned'.id].species] \notin {0, returned'.id}

\* C13: setCellContent at an invalid position or onto an organism of the same
\* species returns false and changes no cell
C13_OccupiedSeedingRejected == [][SeedingOntoOccupied => SeedingRejected]_vars

\* a sheep written into the cell of another sheep: the call returned true and the
\* cell holds the new sheep
C13_Witness ==
    /\ pc = "cells"
    /\ returned # Undefined
    /\ returned.method = "setCellContent"
    /\ returned.value = TRUE
    /\ org[returned.id].species = "sheep"
    /\ <<org[returned.id].x, org[returned.id].y>> # <<returned.x, returned.y>>
    /\ cells[<<returned.x, returned.y>>]["sheep"] = returned.id
    /\ \E other \in DOMAIN org :
          /\ other # returned.id /\ org[other].species = "sheep"
          /\ other \notin OnGrid(World)

(***************************************************************************)
(* C14: at step t the season is the (floor(t / seasonLength) mod 4)-th of  *)
(* spring, summer, autumn, winter.                                         *)
(***************************************************************************)
Seasons == <<"spring", "summer", "autumn", "winter">>

\* C14: the season of the world is the one the step counter stands in, the four
\* seasons repeating every 4 * seasonLength steps
C14_SeasonsCycle == season = Seasons[((currentStep \div SeasonLength) % 4) + 1]

\* the second year has reached the step at which its summer would begin, and the
\* world is in spring
C14_Witness ==
    /\ pc = "seasons"
    /\ currentStep = 5 * SeasonLength
    /\ statistics.totalSteps = currentStep
    /\ season = "spring"

(***************************************************************************)
(* C15: after a completed tick the counts of the statistics are the        *)
(* numbers of grass, sheep and wolves stored on the grid.                  *)
(***************************************************************************)
Occupied(t) == {pos \in DOMAIN cells : cells[pos][t] # 0}

\* C15: at the end of every tick grassCount, sheepCount and wolfCount equal the
\* number of cells that hold a grass, a sheep, a wolf
C15_CountsMatchGrid ==
    AtEndOfTick =>
        /\ statistics.grassCount = Cardinality(Occupied("grass"))
        /\ statistics.sheepCount = Cardinality(Occupied("sheep"))
        /\ statistics.wolfCount = Cardinality(Occupied("wolf"))

\* the end of a tick in which organisms died, so that the counts differ from
\* those of the start of the tick
C15_Witness ==
    /\ AtEndOfTick
    /\ Len(log.deaths) > 0
    /\ statistics.sheepCount > 0
    /\ statistics.sheepCount = Cardinality(Occupied("sheep"))
    /\ statistics.sheepCount #
          Cardinality({id \in DOMAIN log.atStart : log.atStart[id].species = "sheep"})

(***************************************************************************)
(* C16: a pregnant animal has gestationRemaining >= 0 and                  *)
(* expectedLitterSize >= 1 at the end of every tick.                       *)
(***************************************************************************)
Carrying == {id \in Stored("sheep") \cup Stored("wolf") :
                org[id].reproductionState.present /\ org[id].reproductionState.isPregnant}

\* C16: at the end of every tick every animal on the grid with isPregnant = true
\* has gestationRemaining >= 0 and expectedLitterSize >= 1
C16_PregnancyWellFormed ==
    AtEndOfTick =>
        \A id \in Carrying :
            /\ org[id].reproductionState.gestationRemaining >= 0
            /\ org[id].reproductionState.expectedLitterSize >= 1

\* the end of a tick through which an animal has carried the pregnancy that a
\* mating of the tick before gave it
C16_Witness ==
    /\ AtEndOfTick
    /\ \E id \in Carrying :
          /\ id \in DOMAIN log.atStart
          /\ log.atStart[id].reproductionState.isPregnant
          /\ log.atStart[id].reproductionState.lastMatingStep = currentStep - 1
          /\ org[id].reproductionState.gestationRemaining =
                log.atStart[id].reproductionState.gestationRemaining - 1

(***************************************************************************)
(* C17: both partners of a mating are eligible when it happens.            *)
(***************************************************************************)
Eligible(o, step) ==
    /\ o.isAlive
    /\ o.age >= Repro(ReproType(o)).minAge /\ o.age <= Repro(ReproType(o)).maxAge
    /\ o.energy >= Repro(ReproType(o)).minEnergy
    /\ step - o.reproductionState.lastMatingStep >= Repro(ReproType(o)).cooldownPeriod

\* C17: every mating of the tick is between two animals that were, when it happened,
\* alive, of an age within [minAge, maxAge], of energy >= minEnergy and at least
\* cooldownPeriod ticks past their last mating
C17_MatingPartnersEligible ==
    \A i \in DOMAIN log.matings :
        /\ Eligible(log.matings[i].before[1], log.matings[i].step)
        /\ Eligible(log.matings[i].before[2], log.matings[i].step)

\* a tick has ended in which a mating made one partner pregnant and stamped both
C17_Witness ==
    /\ AtEndOfTick
    /\ \E i \in DOMAIN log.matings :
          LET m == log.matings[i]
          IN  /\ {m.pregnant, m.mate} \subseteq DOMAIN org
              /\ org[m.pregnant].reproductionState.isPregnant
              /\ org[m.pregnant].reproductionState.lastMatingStep = m.step
              /\ org[m.mate].reproductionState.lastMatingStep = m.step
              /\ ~ m.before[1].reproductionState.isPregnant

(***************************************************************************)
(* C18: a pregnancy either miscarries on low energy or moves one tick on.  *)
(***************************************************************************)
\* the pregnant animals of a species that the reproduction pass is about to visit
Expecting(t) == {id \in Stored(t) : org[id].reproductionState.present
                                    /\ org[id].reproductionState.isPregnant}

\* the reproduction pass of species t, seen from both of its ends
PregnancyPass(t) ==
    \A id \in Expecting(t) :
        IF org[id].energy - org[id].reproductionState.pregnancyEnergyCost <= MiscarriageEnergy
        THEN /\ \A i \in DOMAIN log'.births : log'.births[i].parent # id
             /\ id \in DOMAIN org' /\ org'[id].isAlive
             /\ org'[id].x = org[id].x /\ org'[id].y = org[id].y
             /\ cells'[<<org[id].x, org[id].y>>][t] = id
             /\ ~ org'[id].reproductionState.isPregnant
        ELSE org'[id].reproductionState.gestationRemaining =
                 org[id].reproductionState.gestationRemaining - 1

PregnancyPasses ==
    /\ pc = "reproduction" /\ pc' = "wolfReproduction" => PregnancyPass("sheep")
    /\ pc = "wolfReproduction" /\ pc' = "grassReproduction" => PregnancyPass("wolf")

\* the animals that miscarried in the tick are on the grid, alive and not pregnant
\* when the tick ends
MiscarriedStayIdle ==
    AtEndOfTick =>
        \A id \in log.miscarried :
            /\ id \in OnGrid(World) /\ org[id].isAlive
            /\ ~ org[id].reproductionState.isPregnant

\* C18: a pregnant animal whose energy less the per-tick pregnancy cost is at or
\* below the miscarriage floor gets no offspring, stays alive in its cell and is
\* not pregnant from that tick on; any other pregnant animal has its
\* gestationRemaining lowered by exactly one in the tick
C18_MiscarriageOrProgress == [][PregnancyPasses]_vars /\ [] MiscarriedStayIdle

\* the end of a tick in which one pregnant animal miscarried and stayed in its cell
C18_Witness ==
    /\ AtEndOfTick
    /\ \E id \in log.miscarried :
          /\ id \in OnGrid(World) /\ org[id].isAlive
          /\ log.atStart[id].reproductionState.isPregnant
          /\ ~ org[id].reproductionState.isPregnant
          /\ org[id].energy <= MiscarriageEnergy
          /\ org[id].x = log.atStart[id].x /\ org[id].y = log.atStart[id].y

(***************************************************************************)
(* C19: the litter of a birth and the cells it is put in.                  *)
(***************************************************************************)
\* the pregnant animals of species t whose gestation runs out in the pass at hand
Delivering(t) ==
    {id \in Expecting(t) :
        /\ org[id].energy - org[id].reproductionState.pregnancyEnergyCost > MiscarriageEnergy
        /\ org[id].reproductionState.gestationRemaining - 1 <= 0}

\* the cells around (x, y) from which the birth radius picks
BirthCells(x, y) ==
    {pos \in DOMAIN cells : Abs(pos[1] - x) + Abs(pos[2] - y) \in 1..BirthRadius}

\* the births that the pass at hand adds for a parent
LitterOf(id) ==
    {i \in DOMAIN log'.births : i > Len(log.births) /\ log'.births[i].parent = id}

BirthPass(t) ==
    \A id \in Delivering(t) :
        LET litter == LitterOf(id)
            Cell(i) == <<log'.births[i].x, log'.births[i].y>>
        IN  /\ Cardinality(litter) <= org[id].reproductionState.expectedLitterSize
            /\ \A i \in litter :
                  /\ Cell(i) \in BirthCells(org[id].x, org[id].y)
                  /\ cells[Cell(i)].sheep = 0 /\ cells[Cell(i)].wolf = 0
                  /\ cells'[Cell(i)][t] = log'.births[i].child
                  /\ \A j \in litter : Cell(j) = Cell(i) => j = i
            \* an offspring is dropped only when no cell is left for it
            /\ \/ Cardinality(litter) = org[id].reproductionState.expectedLitterSize
               \/ \A pos \in BirthCells(org[id].x, org[id].y) :
                     cells'[pos].sheep # 0 \/ cells'[pos].wolf # 0
            \* the parent is left as it was, less its pregnancy
            /\ id \in DOMAIN org' /\ org'[id].isAlive
            /\ cells'[<<org[id].x, org[id].y>>][t] = id
            /\ ~ org'[id].reproductionState.isPregnant

BirthPasses ==
    /\ pc = "reproduction" /\ pc' = "wolfReproduction" => BirthPass("sheep")
    /\ pc = "wolfReproduction" /\ pc' = "grassReproduction" => BirthPass("wolf")

\* the animals that gave birth in the tick are not pregnant when it ends
ParentsEndIdle ==
    AtEndOfTick =>
        \A id \in log.gaveBirth :
            id \in OnGrid(World) /\ ~ org[id].reproductionState.isPregnant

\* C19: a pregnancy that reaches gestationRemaining = 0 adds at most
\* expectedLitterSize offspring, each in a cell of its own inside the grid at
\* Manhattan distance 1 or 2 from the parent that held neither a sheep nor a wolf;
\* an offspring is dropped only when no such cell is left, which leaves the other
\* offspring and the parent alone, and the parent ends the tick not pregnant
C19_LitterPlacement == [][BirthPasses]_vars /\ [] ParentsEndIdle

\* the end of a tick in which a parent got some of its litter placed and the rest
\* dropped for want of a cell
C19_Witness ==
    /\ AtEndOfTick
    /\ \E id \in log.gaveBirth :
          LET litter == {i \in DOMAIN log.births : log.births[i].parent = id}
          IN  /\ Cardinality(litter) >= 1
              /\ Cardinality(litter) < log.atStart[id].reproductionState.expectedLitterSize
              /\ id \in OnGrid(World) /\ ~ org[id].reproductionState.isPregnant

(***************************************************************************)
(* C20: the cooldown between the matings of an animal, and after a birth.  *)
(***************************************************************************)
\* C20: of the matings and births of one animal, in the order they happened, a
\* mating comes at least cooldownPeriod ticks after every mating and after every
\* birth before it
C20_MatingsKeepCooldown ==
    \A j \in DOMAIN log.mated : \A i \in 1..(j - 1) :
        (log.mated[j].kind = "mating" /\ log.mated[i].id = log.mated[j].id)
            => log.mated[j].step - log.mated[i].step >= Repro(log.mated[j].species).cooldownPeriod

\* an animal has mated exactly cooldownPeriod ticks after its last mating or birth
C20_Witness ==
    \E j \in DOMAIN log.mated : \E i \in 1..(j - 1) :
        /\ log.mated[j].kind = "mating" /\ log.mated[i].id = log.mated[j].id
        /\ log.mated[j].step - log.mated[i].step = Repro(log.mated[j].species).cooldownPeriod

(***************************************************************************)
(* C21: who mates in a pack, with and without alphaBreedingOnly.           *)
(***************************************************************************)
WolfMatings == {i \in DOMAIN log.matings : ReproType(log.matings[i].before[1]) = "wolf"}

\* the wolves that take part in a mating of the tick
MatingWolves == {log.matings[i].pregnant : i \in WolfMatings} \cup {log.matings[i].mate : i \in WolfMatings}

\* with alphaBreedingOnly: the partners of a mating are alphas, one pack has one
\* mating in the tick, and a wolf that is not an alpha is never pregnant nor
\* stamped by a mating
AlphasOnly ==
    /\ \A i \in WolfMatings :
          /\ log.matings[i].before[1].packRole = "alpha"
          /\ log.matings[i].before[2].packRole = "alpha"
          /\ \A j \in WolfMatings :
                log.matings[j].before[1].packId = log.matings[i].before[1].packId => j = i
    /\ \A id \in Stored("wolf") :
          org[id].packRole # "alpha" =>
              /\ ~ org[id].reproductionState.isPregnant
              /\ \A k \in DOMAIN log.mated : ~ (log.mated[k].id = id /\ log.mated[k].kind = "mating")

\* without it: the partners are eligible, of one pack and within the territory radius
PairsOfThePack ==
    \A i \in WolfMatings :
        LET a == log.matings[i].before[1]
            b == log.matings[i].before[2]
        IN  /\ Eligible(a, log.matings[i].step) /\ Eligible(b, log.matings[i].step)
            /\ a.packId = b.packId
            /\ Abs(a.x - b.x) + Abs(a.y - b.y) <= WolfTerritoryRadius

\* C21: when alphaBreedingOnly is set no wolf that is not an alpha becomes pregnant
\* or is stamped by a mating and a pack has at most its two alphas mating in a tick;
\* when it is not set only eligible wolves of the same pack within territoryRadius
\* of each other mate
C21_PackBreeding ==
    IF config.alphaBreedingOnly THEN AlphasOnly ELSE PairsOfThePack

\* the end of a tick in which the two alphas of a pack mated beside an eligible omega
C21_Witness ==
    /\ AtEndOfTick
    /\ config.alphaBreedingOnly
    /\ WolfMatings # {}
    /\ \E id \in Stored("wolf") :
          /\ id \notin MatingWolves
          /\ org[id].packRole = "omega"
          /\ id \in DOMAIN log.atStart
          /\ Eligible(log.atStart[id], spStep)

(***************************************************************************)
(* C22: the passes work on the snapshot taken at their start.              *)
(***************************************************************************)
Animals == {id \in DOMAIN org : org[id].species # "grass"}

\* the aging loop of a pass charges every animal of its snapshot once, and no
\* other step of the tick ages an animal
AgedByThePass(t, at) ==
    IF pc = at
    THEN \A id \in Stored(t) :
            /\ org'[id].age = org[id].age + 1
            /\ org'[id].energy = org[id].energy - EnergyPerStep(t)
    ELSE \A id \in DOMAIN org \cap DOMAIN org' :
            org[id].species = t => org'[id].age = org[id].age

\* an organism created earlier in the tick is left as it is by the steps of the
\* pass of its species
BornLeftAlone ==
    pc # "idle" =>
        \A id \in log.born \cap DOMAIN org \cap DOMAIN org' :
            /\ org[id].species = "grass" =>
                  org'[id].age = org[id].age /\ org'[id].density <= org[id].density
            /\ org[id].species # "grass" =>
                  /\ org'[id].age = org[id].age /\ org'[id].hunger = org[id].hunger
                  /\ org'[id].x = org[id].x /\ org'[id].y = org[id].y
                  /\ org'[id].energy = org[id].energy

SnapshotPasses ==
    /\ AgedByThePass("sheep", "sheepAging")
    /\ AgedByThePass("wolf", "wolfAging")
    /\ BornLeftAlone

\* the organisms created in the tick are as they were created, and stand in their
\* cells when the pass of their species is over
BornAsCreated ==
    /\ \A id \in log.born \cap DOMAIN org :
          /\ org[id].age = 0
          /\ org[id].species = "grass" => org[id].density <= NewGrassDensity
          /\ org[id].species # "grass" =>
                /\ org[id].hunger = 0
                /\ org[id].energy \in {OffspringEnergy, SheepBatchOffspringEnergy}
    /\ \A id \in log.born :
          \/ /\ pc = "sheepAging" /\ org[id].species = "grass"
             /\ cells[<<org[id].x, org[id].y>>].grass = id /\ org[id].isAlive
          \/ /\ pc = "wolfAging" /\ org[id].species = "sheep"
             /\ cells[<<org[id].x, org[id].y>>].sheep = id /\ org[id].isAlive
          \/ pc \notin {"sheepAging", "wolfAging"}
          \/ pc = "sheepAging" /\ org[id].species # "grass"
          \/ pc = "wolfAging" /\ org[id].species # "sheep"

\* the animals of the start of the tick that are on the grid at its end are one
\* tick older
OneTickOlder ==
    AtEndOfTick =>
        \A id \in DOMAIN log.atStart \cap Animals : org[id].age = log.atStart[id].age + 1

\* C22: every sheep and wolf on the grid at the start of its pass is aged and
\* charged energyPerStep exactly once in the tick, and an organism created during
\* the tick is not aged, moved, fed or culled by the pass of its species in that tick
C22_SnapshotPasses == [][SnapshotPasses]_vars /\ [] BornAsCreated /\ [] OneTickOlder

\* the end of a tick in which a sheep was born to the sheep pass and another was
\* aged by it
C22_Witness ==
    /\ AtEndOfTick
    /\ \E id \in log.born \cap DOMAIN org : org[id].species = "sheep" /\ org[id].age = 0
    /\ \E id \in DOMAIN log.atStart \cap Animals :
          org[id].species = "sheep" /\ org[id].age = log.atStart[id].age + 1

(***************************************************************************)
(* SimulationEngine: the flags, the speed and the interval timer of the    *)
(* engine, its calls, and the part of its processStep that follows the     *)
(* pipeline: the analyzer's record of the three counts and the extinction  *)
(* events.  A timer is the record of its id and its interval in ms.        *)
(***************************************************************************)
AnalyzerSpecies == <<"grass", "sheep", "wolves">>

\* pause() without its test of isRunning
PauseUnguarded(e) == [e EXCEPT !.isPaused = TRUE]

StopSimulationLoop(e) ==
    IF e.intervalId # 0
    THEN [e EXCEPT !.timers = {t \in @ : t.id # e.intervalId}, !.intervalId = 0]
    ELSE e

StartSimulationLoop(e) ==
    LET live == IF e.intervalId # 0 THEN {t \in e.timers : t.id # e.intervalId} ELSE e.timers
        id == CHOOSE n \in 1..(Cardinality(live) + 1) :
                  /\ \A t \in live : t.id # n
                  /\ \A m \in 1..(n - 1) : \E t \in live : t.id = m
    IN  [e EXCEPT !.timers = live \cup {[id |-> id, ms |-> 10000 \div e.speed]},
                  !.intervalId = id]

Start(e) ==
    IF e.isRunning /\ ~e.isPaused THEN e
    ELSE [e EXCEPT !.isRunning = TRUE, !.isPaused = FALSE]

Pause(e) ==
    IF ~e.isRunning THEN e
    ELSE [e EXCEPT !.isPaused = TRUE]

Resume(e) ==
    IF ~e.isRunning \/ ~e.isPaused THEN e
    ELSE [e EXCEPT !.isPaused = FALSE]

Stop(e) == StopSimulationLoop([e EXCEPT !.isRunning = FALSE, !.isPaused = FALSE])

\* setSpeed(speed), the speed in tenths of a step per second
SetSpeed(e, speed) ==
    LET clamped == IF speed < 1 THEN 1 ELSE IF speed > 100 THEN 100 ELSE speed
        set == [e EXCEPT !.speed = clamped]
    IN  IF set.isRunning /\ ~set.isPaused THEN StartSimulationLoop(StopSimulationLoop(set))
        ELSE set

\* EcologicalAnalyzer.recordPopulation(step, stats) for the three series
CountsOf(history, species) == [i \in 1..Len(history) |-> history[i][species]]

CheckForAlerts(as, history, step, stats) ==
    LET AddAlert(list, alert) ==
            IF \E i \in 1..Len(list) : list[i].id = alert.id THEN list ELSE Append(list, alert)
        wolfAlert == [id |-> <<"wolf-extinction-risk", step>>, severity |-> "critical",
                      type |-> "extinction_risk", species |-> "wolf", step |-> step]
        sheepAlert == [id |-> <<"sheep-starvation-paradox", step>>, severity |-> "warning",
                       type |-> "starvation_event", species |-> "sheep", step |-> step]
        afterWolf == IF stats.wolfCount <= 5 /\ stats.wolfCount > 0
                     THEN AddAlert(as, wolfAlert) ELSE as
    IN  IF Len(history) >= 5
        THEN IF stats.sheepCount < 50 /\ stats.grassCount > 10000
             THEN AddAlert(afterWolf, sheepAlert) ELSE afterWolf
        ELSE as

RecordPopulationOfAll(history0, states, cycles, as, step, stats) ==
    LET pushed == Append(history0, [step |-> step, grass |-> stats.grassCount,
                                    sheep |-> stats.sheepCount, wolves |-> stats.wolfCount])
        history == IF Len(pushed) > HistoryCapacity THEN Tail(pushed) ELSE pushed
        g == DetectSpeciesOscillation(CountsOf(history, "grass"), states.grass, cycles,
                                      "grass", stats.grassCount, step)
        s == DetectSpeciesOscillation(CountsOf(history, "sheep"), states.sheep, g.cycles,
                                      "sheep", stats.sheepCount, step)
        w == DetectSpeciesOscillation(CountsOf(history, "wolves"), states.wolves, s.cycles,
                                      "wolves", stats.wolfCount, step)
    IN  [history |-> history,
         states |-> [grass |-> g.state, sheep |-> s.state, wolves |-> w.state],
         cycles |-> w.cycles,
         alerts |-> CheckForAlerts(as, history, step, stats)]

\* the cause with the most records among the wolf deaths, the first seen on a tie
PrimaryCause(deaths) ==
    LET seen == {deaths[i].cause : i \in 1..Len(deaths)}
        Count(c) == Cardinality({i \in 1..Len(deaths) : deaths[i].cause = c})
        First(c) == CHOOSE i \in 1..Len(deaths) :
                        deaths[i].cause = c /\ \A j \in 1..(i - 1) : deaths[j].cause # c
    IN  IF deaths = <<>> THEN "unknown"
        ELSE CHOOSE c \in seen :
                 \A d \in seen : Count(c) > Count(d) \/ (Count(c) = Count(d) /\ First(c) <= First(d))

\* EcologicalAnalyzer.analyzeWolfExtinction(step, deathStats): the analysis it pushes,
\* without the texts and scores derived from these fields
AnalyzeWolfExtinction(history, step, ds) ==
    LET recentWolfDeaths == SelectSeq(ds.recentDeaths, LAMBDA d : d.organismType = "wolf")
        lastPopulationData == IF Len(history) > 20
                              THEN SubSeq(history, Len(history) - 19, Len(history)) ELSE history
        n == Len(lastPopulationData)
    IN  [species |-> "wolf", step |-> step,
         lastPopulation |-> IF n = 0 THEN 0 ELSE lastPopulationData[n].wolves,
         primaryCause |-> PrimaryCause(recentWolfDeaths),
         populationHistory |-> [i \in 1..n |-> [step |-> lastPopulationData[i].step,
                                                count |-> lastPopulationData[i].wolves]],
         grassAvailability |-> IF n = 0 THEN 0 ELSE lastPopulationData[n].grass,
         preyAvailability |-> IF n = 0 THEN 0 ELSE lastPopulationData[n].sheep]

HasExtinctionEvent(events, species) == \E i \in 1..Len(events) : events[i].species = species

\* a checkExtinctionEvents that does not ask hasExtinctionEvent
CheckExtinctionEventsRepeated(events, stats, step) ==
    LET AddIf(list, count, species, cause) ==
            IF count = 0
            THEN Append(list, [species |-> species, step |-> step, cause |-> cause])
            ELSE list
    IN  AddIf(AddIf(AddIf(events, stats.grassCount, "grass", "environmental"),
                    stats.sheepCount, "sheep", "predation"),
              stats.wolfCount, "wolf", "starvation")

\* the extinction events after checkExtinctionEvents, the step being the world's
CheckExtinctionEvents(events, stats, step) ==
    LET AddIf(list, count, species, cause) ==
            IF count = 0 /\ ~HasExtinctionEvent(list, species)
            THEN Append(list, [species |-> species, step |-> step, cause |-> cause])
            ELSE list
    IN  AddIf(AddIf(AddIf(events, stats.grassCount, "grass", "environmental"),
                    stats.sheepCount, "sheep", "predation"),
              stats.wolfCount, "wolf", "starvation")

GetLatestExtinctionAnalysis ==
    IF extinctionAnalyses = <<>> THEN Undefined
    ELSE extinctionAnalyses[Len(extinctionAnalyses)]

engineOnly ==
    UNCHANGED <<width, height, cells, org, currentStep, spStep, season, temperature,
                statistics, deathStats, nextId, pc, batch, log, analyzerVars, config,
                maxSteps, returned>>

Ready == engine.pc = "ready" /\ pc = "idle"

StartCall == Ready /\ engine' = Start(engine) /\ engineOnly

PauseCall == Ready /\ engine' = Pause(engine) /\ engineOnly

ResumeCall == Ready /\ engine' = Resume(engine) /\ engineOnly

StopCall == Ready /\ engine' = Stop(engine) /\ engineOnly

Speeds == {0, 20, 200}

SetSpeedCall == Ready /\ (\E speed \in Speeds : engine' = SetSpeed(engine, speed)) /\ engineOnly

\* step(): processStep is entered
StepCall ==
    /\ Ready
    /\ spStep < maxSteps
    /\ engine' = [engine EXCEPT !.pc = "stepping", !.caller = "step"]
    /\ engineOnly

\* the callback of an interval that was not cleared: processStep is entered
TimerFires ==
    /\ Ready
    /\ spStep < maxSteps
    /\ engine.timers # {}
    /\ engine' = [engine EXCEPT !.pc = "stepping", !.caller = "timer"]
    /\ engineOnly

\* stepProcessor.processStep() inside the engine's processStep
EnginePipeline ==
    /\ engine.pc = "stepping"
    /\ pc # "idle" \/ engine.currentStep = currentStep
    /\ ProcessStep

\* the rest of the engine's processStep: state.currentStep, recordPopulation,
\* checkExtinctionEvents
EngineProcessStep ==
    /\ engine.pc = "stepping"
    /\ pc = "idle"
    /\ engine.currentStep # currentStep
    /\ LET r == RecordPopulationOfAll(populationHistory, speciesStates, oscillationCycles,
                                      alerts, currentStep, statistics)
           events == CheckExtinctionEvents(statistics.extinctionEvents, statistics, currentStep)
           wolfGone == statistics.wolfCount = 0
                       /\ ~HasExtinctionEvent(statistics.extinctionEvents, "wolf")
           stepped == [engine EXCEPT !.currentStep = currentStep, !.pc = "ready", !.caller = "none"]
       IN  /\ populationHistory' = r.history
           /\ speciesStates' = r.states
           /\ oscillationCycles' = r.cycles
           /\ alerts' = r.alerts
           /\ statistics' = [statistics EXCEPT !.extinctionEvents = events]
           /\ extinctionAnalyses' =
                  IF wolfGone
                  THEN Append(extinctionAnalyses,
                              AnalyzeWolfExtinction(r.history, currentStep, deathStats))
                  ELSE extinctionAnalyses
           /\ engine' = IF config.pauseOnExtinction /\ events # <<>>
                        THEN Pause(stepped) ELSE stepped
    /\ UNCHANGED <<width, height, cells, org, currentStep, spStep, season, temperature,
                   deathStats, nextId, pc, batch, log, feed, config, maxSteps, returned>>

\* reset(): stop(), then a new World, StepProcessor and EcologicalAnalyzer
ResetCall ==
    /\ Ready
    /\ engine' = [Stop(engine) EXCEPT !.isRunning = FALSE, !.isPaused = FALSE,
                                      !.currentStep = 0, !.speed = 10]
    /\ cells' = [pos \in DOMAIN cells |-> EmptyCell]
    /\ org' = <<>>
    /\ currentStep' = 0
    /\ spStep' = 0
    /\ season' = "spring"
    /\ temperature' = BaseTemperature
    /\ statistics' = InitialStatistics
    /\ deathStats' = InitializeDeathStats
    /\ nextId' = 1
    /\ batch' = <<>>
    /\ log' = EmptyLog
    /\ populationHistory' = <<>>
    /\ speciesStates' = [sp \in {"grass", "sheep", "wolves"} |-> InitialSpeciesState]
    /\ oscillationCycles' = <<>>
    /\ extinctionAnalyses' = <<>>
    /\ alerts' = <<>>
    /\ UNCHANGED <<width, height, pc, feed, config, maxSteps, returned>>

(***************************************************************************)
(* The engine over seeded 2 x 2 worlds in which a species dies out: the    *)
(* wolf starves, the wolf takes the only sheep, or the sheep grazes the    *)
(* only patch of grass to nothing.                                         *)
(***************************************************************************)
EngineTicks == 2

SheepFresh == Animal(20, 1000, 0, 5)
SheepPeckish == Animal(20, 500, 9, 5)
WolfSpent == Animal(20, 10, 40, 0)
WolfKeen == Animal(20, 500, 40, 0)
WolfFed == Animal(20, 900, 0, 0)

EngineWorlds ==
    {<<Place("wolf", 0, 0, WolfSpent), Place("sheep", 1, 1, SheepFresh),
       Place("grass", 1, 1, Grass(850))>>,
     <<Place("wolf", 0, 0, WolfKeen), Place("sheep", 0, 1, SheepFresh),
       Place("grass", 1, 1, Grass(400))>>,
     <<Place("wolf", 1, 1, WolfFed), Place("sheep", 0, 0, SheepPeckish),
       Place("grass", 0, 0, Grass(10))>>}

InitEngine ==
    /\ \E placed \in EngineWorlds : InitGrid(2, 2, 0, placed)
    /\ deathStats = InitializeDeathStats
    /\ pc = "idle"
    /\ populationHistory = <<>>
    /\ speciesStates = [sp \in {"grass", "sheep", "wolves"} |-> InitialSpeciesState]
    /\ oscillationCycles = <<>>
    /\ extinctionAnalyses = <<>>
    /\ alerts = <<>>
    /\ feed = NoFeed
    /\ maxSteps = EngineTicks
    /\ \E flag \in BOOLEAN : config = [DefaultConfig EXCEPT !.pauseOnExtinction = flag]
    /\ engine = NewEngine(0)
    /\ returned = Undefined

NextEngine ==
    \/ StartCall
    \/ PauseCall
    \/ ResumeCall
    \/ StopCall
    \/ SetSpeedCall
    \/ StepCall
    \/ TimerFires
    \/ ResetCall
    \/ EnginePipeline
    \/ EngineProcessStep

SpecEngine == InitEngine /\ [][NextEngine]_vars

\* C23: the flags (isRunning, isPaused) are always (false,false), (true,false) or
\* (true,true); start gives (true,false), pause turns (true,false) into (true,true)
\* and does nothing when the engine is not running, resume turns (true,true) into
\* (true,false) and does nothing otherwise, stop and reset give (false,false), and
\* reset returns the tick counter and totalSteps to 0
Flags(e) == <<e.isRunning, e.isPaused>>

FlagsWellFormed == Flags(engine) \in {<<FALSE, FALSE>>, <<TRUE, FALSE>>, <<TRUE, TRUE>>}

CallsActAsSpecified ==
    /\ StartCall => Flags(engine') = <<TRUE, FALSE>>
    /\ PauseCall => Flags(engine') = IF Flags(engine) = <<TRUE, FALSE>> THEN <<TRUE, TRUE>>
                                     ELSE Flags(engine)
    /\ ResumeCall => Flags(engine') = IF Flags(engine) = <<TRUE, TRUE>> THEN <<TRUE, FALSE>>
                                      ELSE Flags(engine)
    /\ StopCall => Flags(engine') = <<FALSE, FALSE>>
    /\ ResetCall => /\ Flags(engine') = <<FALSE, FALSE>>
                    /\ currentStep' = 0
                    /\ engine'.currentStep = 0
                    /\ statistics'.totalSteps = 0

C23_EngineFlags == [][CallsActAsSpecified]_vars /\ [] FlagsWellFormed

\* the engine was started, stepped and paused by a pause call: no extinction pauses it
C23_Witness ==
    /\ Flags(engine) = <<TRUE, TRUE>>
    /\ engine.pc = "ready"
    /\ ~config.pauseOnExtinction
    /\ engine.currentStep > 0
    /\ currentStep = engine.currentStep

\* the species whose count the last tick of the engine brought from above zero to zero
CountOf(species) ==
    CASE species = "grass" -> statistics.grassCount
      [] species = "sheep" -> statistics.sheepCount
      [] species = "wolf" -> statistics.wolfCount

WentExtinct(species) ==
    /\ engine.pc = "ready"
    /\ pc = "idle"
    /\ engine.currentStep > 0
    /\ CountOf(species) = 0
    /\ \E id \in DOMAIN log.atStart : GetOrganismType(log.atStart[id]) = species

AnalysedNow(species) ==
    \E i \in 1..Len(extinctionAnalyses) :
        extinctionAnalyses[i].species = species /\ extinctionAnalyses[i].step = currentStep

\* C24: when the count of a species reaches zero in a tick, that tick produces an
\* extinction analysis for that species, and when it is the only species that died out
\* getLatestExtinctionAnalysis returns an analysis of that species
C24_EveryExtinctionAnalysed ==
    \A species \in Species :
        WentExtinct(species) =>
            /\ AnalysedNow(species)
            /\ (\A other \in Species \ {species} : ~WentExtinct(other)) =>
                   GetLatestExtinctionAnalysis.species = species

\* the last sheep died in the tick and the analyzer holds no analysis at all
C24_Witness ==
    /\ WentExtinct("sheep")
    /\ \E i \in 1..Len(statistics.extinctionEvents) :
           statistics.extinctionEvents[i] = [species |-> "sheep", step |-> currentStep,
                                             cause |-> "predation"]
    /\ extinctionAnalyses = <<>>

\* the last wolf died in the tick and the latest analysis is the one of that tick
WolfExtinctionAnalysed ==
    WentExtinct("wolf") =>
        /\ extinctionAnalyses # <<>>
        /\ GetLatestExtinctionAnalysis.species = "wolf"
        /\ GetLatestExtinctionAnalysis.step = currentStep

(***************************************************************************)
(* Reproducibility.  No pass of the pipeline reads a seed: every draw is   *)
(* Math.random, and the draws are the choices of the passes of the model.  *)
(* Two runs from one state with the same calls stay equal exactly when the *)
(* pass that is about to run has a single outcome.                         *)
(***************************************************************************)
\* the worlds that the pass about to run can leave
PassOutcomes ==
    LET step == IF spStep # 0 THEN spStep ELSE currentStep
    IN  CASE pc = "idle" /\ spStep < maxSteps ->
                 ProcessGrassBatch([World EXCEPT !.log = [EmptyLog EXCEPT
                     !.atStart = [i \in OnGrid(World) |-> org[i]], !.mated = log.mated]])
          [] pc = "sheepMovement" -> ProcessSheepMovementBatch(World, batch)
          [] pc = "sheepReproduction" -> ProcessSheepReproductionBatch(World, batch)
          [] pc = "wolfMovement" -> ProcessWolfMovementBatch(World, batch)
          [] pc = "reproduction" -> ProcessSheepReproduction(World, step)
          [] pc = "wolfReproduction" -> ProcessWolfReproduction(World, step)
          [] pc = "grassReproduction" -> ProcessGrassReproduction(World, step)
          [] OTHER -> {World}

\* what the claim compares: organisms, positions, energies, reproduction states, ledger
Observed(w) == [cells |-> w.cells, org |-> [i \in OnGrid(w) |-> w.org[i]], ds |-> w.ds]

\* C25: two runs from the same world with the same seed and the same step calls are in
\* identical states after every tick: no pass of a tick has two different outcomes
C25_TicksReproducible == Cardinality({Observed(w) : w \in PassOutcomes}) <= 1

\* a sheep is about to move and the draw decides where it stands afterwards
C25_Witness ==
    /\ pc = "sheepMovement"
    /\ \E w1, w2 \in PassOutcomes : \E k \in 1..Len(batch) : LET id == batch[k] IN
           /\ id \in OnGrid(w1) \cap OnGrid(w2)
           /\ <<w1.org[id].x, w1.org[id].y>> # <<w2.org[id].x, w2.org[id].y>>

\* the animal was created by the Birth transition of a parent that started the tick
\* pregnant with one tick of gestation left and did not mate in the tick
BornOfPregnancy(id) ==
    \E i \in DOMAIN log.births :
        LET parent == log.births[i].parent
        IN  /\ log.births[i].child = id
            /\ parent \in log.gaveBirth
            /\ parent \in DOMAIN log.atStart
            /\ log.atStart[parent].reproductionState.isPregnant
            /\ log.atStart[parent].reproductionState.gestationRemaining = 1
            /\ \A j \in DOMAIN log.matings :
                   parent \notin {log.matings[j].pregnant, log.matings[j].mate}

BornAnimals(species) == {id \in log.born \cap DOMAIN org : org[id].species = species}

\* C26: every sheep or wolf created during a run is created by the Birth transition of a
\* parent that was pregnant and whose gestationRemaining reached zero in that tick; none
\* is created without a pregnancy or in the tick in which its parents mate
C26_BornOfPregnancy ==
    \A id \in BornAnimals("sheep") \cup BornAnimals("wolf") : BornOfPregnancy(id)

\* a lamb stands on the grid that the sheep pass created: no birth is logged for it and
\* no sheep started the tick pregnant
C26_Witness ==
    /\ pc = "idle"
    /\ \E id \in BornAnimals("sheep") :
          /\ \A i \in DOMAIN log.births : log.births[i].child # id
          /\ org[id].energy = SheepBatchOffspringEnergy
          /\ \A p \in DOMAIN log.atStart : log.atStart[p].species = "sheep" =>
                 ~log.atStart[p].reproductionState.isPregnant

\* the wolves of the claim: every wolf created in a tick is born of a pregnancy
WolvesBornOfPregnancy == \A id \in BornAnimals("wolf") : BornOfPregnancy(id)

\* C27: a sheep consumes grass only from the cell it occupies: whenever a sheep eats, the
\* grass that loses density is the one stored in the sheep's own cell, and a hungry sheep
\* that is not on grass changes no density and neither its energy nor its hunger by eating
C27_GrazesOwnCellOnly ==
    \A i \in DOMAIN log.grazed :
        <<log.grazed[i].gx, log.grazed[i].gy>> = <<log.grazed[i].sx, log.grazed[i].sy>>

\* a hungry sheep in a cell without grass has eaten from the grass of another cell: its
\* hunger is back at 0 and the patch has lost what the sheep consumed
C27_Witness ==
    /\ pc = "sheepMovement"
    /\ \E i \in DOMAIN log.grazed :
          LET g == log.grazed[i]
          IN  /\ <<g.gx, g.gy>> # <<g.sx, g.sy>>
              /\ g.sheep \in DOMAIN log.atStart
              /\ cells[<<g.sx, g.sy>>].grass = 0
              /\ cells[<<g.sx, g.sy>>].sheep = g.sheep
              /\ log.atStart[g.sheep].hunger + 1 >= SheepHungerThreshold
              /\ org[g.sheep].hunger = 0
              /\ org[g.sheep].energy > log.atStart[g.sheep].energy - SheepEnergyPerStep
              /\ org[g.grass].density < NewGrassDensity

(***************************************************************************)
(* A hungry sheep on a patch of grass, a second patch elsewhere, on a      *)
(* 2 x 2 grid without wolves, ticked GrazeTicks times.                     *)
(***************************************************************************)
GrazeTicks == 2

GrazingWorlds ==
    {<<Place("sheep", 0, 0, SheepPeckish), Place("grass", 0, 0, Grass(d1)),
       Place("grass", 1, 1, Grass(d2))>> : d1 \in {10, 500, 650, 1000}, d2 \in {280, 950}}

InitGrazing == \E placed \in GrazingWorlds : InitRun(2, 2, 0, placed, GrazeTicks)

SpecGrazing == InitGrazing /\ [][NextRepro]_vars

\* the grass stored in the cells of the grid
GridGrass == {cells[pos].grass : pos \in DOMAIN cells} \ {0}

\* C28: at the end of every tick every grass on the grid has the growthStage derived from
\* its current density (seed below 0.3, sprout below 0.6, mature below 0.9, dying
\* otherwise), also after it has been grazed
C28_StageFollowsDensity ==
    pc = "idle" => \A id \in GridGrass : org[id].growthStage = GetGrowthStage(org[id].density)

\* a patch was grazed in the tick that has ended, from a density of the stage it still
\* carries down to a density of a lower stage
C28_Witness ==
    /\ pc = "idle"
    /\ \E i \in DOMAIN log.grazed :
          LET id == log.grazed[i].grass
          IN  /\ id \in GridGrass \cap DOMAIN log.atStart
              /\ org[id].density < log.atStart[id].density
              /\ org[id].growthStage = log.atStart[id].growthStage
              /\ org[id].growthStage # GetGrowthStage(org[id].density)

\* C29: at the end of every tick every grass on the grid has 0 < density <= maxDensity;
\* growth never raises a density above maxDensity, grazing never makes one negative, and
\* a patch grazed to zero density is off the grid in that tick with exactly one death
\* record, of cause 'grazing'
GrazingRecords(id) ==
    {i \in DOMAIN log.deaths : log.deaths[i].organismId = id}

C29_DensityInRange ==
    /\ pc = "idle" => \A id \in GridGrass : org[id].density > 0 /\ org[id].density <= GrassMaxDensity
    /\ \A id \in DOMAIN org : org[id].species = "grass" =>
           org[id].density >= 0 /\ org[id].density <= GrassMaxDensity
    /\ \A i \in DOMAIN log.grazed :
           LET id == log.grazed[i].grass
           IN  id \in DOMAIN org /\ org[id].density = 0 =>
                   /\ id \notin GridGrass
                   /\ Cardinality(GrazingRecords(id)) = 1
                   /\ \A k \in GrazingRecords(id) : log.deaths[k].cause = "grazing"

\* a tick has ended in which one patch was grazed to nothing and removed, and another
\* grew to maxDensity
C29_Witness ==
    /\ pc = "idle"
    /\ \E i \in DOMAIN log.grazed : log.grazed[i].grass \notin GridGrass
    /\ \E k \in DOMAIN log.deaths : log.deaths[k].cause = "grazing"
    /\ \E id \in GridGrass \cap DOMAIN log.atStart :
          org[id].density = GrassMaxDensity /\ log.atStart[id].density < GrassMaxDensity

(***************************************************************************)
(* Two wolves on either side of a 3 x 3 grid and two sheep between and     *)
(* beside them, ticked HuntTicks times.                                    *)
(***************************************************************************)
HuntTicks == 2

HuntWorlds ==
    {<<Place("wolf", 0, 1, w1), Place("wolf", 2, 1, WolfRavenous),
       Place("sheep", pos[1], pos[2], SheepYoung), Place("sheep", 2, 2, SheepYoung)>> :
     w1 \in {WolfRavenous, WolfHungry, WolfSated}, pos \in {<<1, 1>>, <<1, 0>>, <<0, 0>>}}

InitHunt == \E placed \in HuntWorlds : InitRun(GridSide, GridSide, StartStep, placed, HuntTicks)

SpecHunt == InitHunt /\ [][Next]_vars

\* the kills of the tick: the hunting turns that found the sheep at distance <= 1
Kills == {k \in DOMAIN log.hunts : log.hunts[k].distance2 <= 1}

HuntingRecords(id) ==
    {i \in DOMAIN log.deaths : log.deaths[i].organismId = id /\ log.deaths[i].cause = "hunting"}

\* C30: a sheep is killed by a wolf only when the wolf has hunger >= hungerThreshold and
\* the sheep is at Euclidean distance <= 1 from it (same cell or orthogonal neighbour) and
\* inside its hunting radius; each kill writes exactly one death record of cause
\* 'hunting' for that sheep, no wolf kills more than one sheep in a tick, and no sheep is
\* recorded as hunted by two wolves
C30_KillsByHungryNeighbours ==
    /\ \A i \in DOMAIN log.deaths :
           log.deaths[i].cause = "hunting" =>
               /\ log.deaths[i].organismType = "sheep"
               /\ Cardinality({k \in Kills : log.hunts[k].sheep = log.deaths[i].organismId}) = 1
    /\ \A k \in Kills :
           LET wolf == log.hunts[k].wolf
               sheep == log.hunts[k].sheep
           IN  /\ wolf \in DOMAIN log.atStart
               /\ log.atStart[wolf].hunger + 1 >= WolfHungerThreshold
               /\ Cardinality(HuntingRecords(sheep)) = 1
               /\ \A c \in DOMAIN cells : cells[c].sheep # sheep
               /\ \A j \in Kills : log.hunts[j].wolf = wolf => j = k
               /\ pc = "wolfMovement" =>
                      \A i \in HuntingRecords(sheep) :
                          LET dx == log.deaths[i].x - org[wolf].x
                              dy == log.deaths[i].y - org[wolf].y
                          IN  /\ dx * dx + dy * dy <= 1
                              /\ dx \in -WolfHuntingRadius..WolfHuntingRadius
                              /\ dy \in -WolfHuntingRadius..WolfHuntingRadius

\* both wolves have hunted in the tick: each killed one sheep beside it
C30_Witness ==
    /\ pc = "wolfMovement"
    /\ Cardinality(Kills) = 2
    /\ Cardinality({log.hunts[k].wolf : k \in Kills}) = 2
    /\ Cardinality({log.hunts[k].sheep : k \in Kills}) = 2
    /\ \A k \in Kills : org[log.hunts[k].wolf].hunger = 0

(***************************************************************************)
(* The oscillation detector fed a series that falls for TroughTicks ticks  *)
(* to a trough, stays there, and then rises for as many ticks.             *)
(***************************************************************************)
TroughTicks == 10

Troughs == {0, 4, 9, 10, 15}

TroughSeriesAt(p, i) ==
    IF i <= TroughTicks + 1 THEN Max(p.trough, p.p0 - p.fall * (i - 1))
    ELSE Max(p.trough, p.p0 - p.fall * TroughTicks) + p.rise * (i - TroughTicks - 1)

TroughSeries(p) == [i \in 1..(2 * TroughTicks + 1) |-> TroughSeriesAt(p, i)]

TroughShapes == [p0 : {60, 100}, fall : {5, 10, 20}, trough : Troughs, rise : {3, 12}]

InitTrough ==
    /\ InitGrid(1, 1, 0, <<>>)
    /\ deathStats = InitializeDeathStats
    /\ pc = "analyzer"
    /\ InitAnalyzer
    /\ maxSteps = 0
    /\ config = DefaultConfig
    /\ engine = NewEngine(0)
    /\ returned = Undefined
    /\ \E p \in TroughShapes, sp \in {"sheep", "wolves"} :
          feed = [species |-> sp, series |-> TroughSeries(p), next |-> 1]

SpecTrough == InitTrough /\ [][NextOsc]_vars

\* the lowest count fed to the detector from step `from` to step `to`
LowestFed(from, to) ==
    LET seen == {feed.series[i] : i \in (from..to) \cap DOMAIN feed.series}
    IN  CHOOSE n \in seen : \A m \in seen : n <= m

\* a recordPopulation call that pushes a cycle: the cycle has the type of the flip
FlipTagged ==
    Len(oscillationCycles') = Len(oscillationCycles) + 1 =>
        LET c == oscillationCycles'[Len(oscillationCycles')]
            trough == LowestFed(c.startStep, c.endStep)
        IN  /\ c.duration > MinCycleDuration /\ c.amplitude > MinCycleAmplitude
            /\ \/ /\ speciesStates.trend = "increasing" /\ speciesStates'.trend = "decreasing"
                  /\ c.cycleType = "growth_to_decline"
               \/ /\ speciesStates.trend = "decreasing" /\ speciesStates'.trend = "increasing"
                  /\ c.cycleType = IF trough < NearExtinction THEN "near_extinction_recovery"
                                   ELSE "decline_to_growth"

\* C31: among the trend flips that pass the minimum duration (> 3 ticks) and amplitude
\* (> 5), a flip from a declining to a growing trend is recorded as
\* near_extinction_recovery exactly when the lowest population seen during the declining
\* trend was below the near-extinction floor of 10, a trough of 0 included, and as
\* decline_to_growth otherwise; a flip from growing to declining is recorded as
\* growth_to_decline
C31_FlipsTaggedByTrough == [][FlipTagged]_vars

\* a declining trend that reached 0 has flipped to growth and the cycle pushed for it is
\* a decline_to_growth
C31_Witness ==
    \E i \in DOMAIN oscillationCycles :
        LET c == oscillationCycles[i]
        IN  /\ c.cycleType = "decline_to_growth"
            /\ c.endStep < feed.next
            /\ LowestFed(c.startStep, c.endStep) = 0

\* the flips whose trough lies above 0 carry the tag the claim gives them
FlipTaggedAboveZero ==
    Len(oscillationCycles') = Len(oscillationCycles) + 1 =>
        LET c == oscillationCycles'[Len(oscillationCycles')]
            trough == LowestFed(c.startStep, c.endStep)
        IN  trough > 0 /\ speciesStates.trend = "decreasing" =>
                c.cycleType = IF trough < NearExtinction THEN "near_extinction_recovery"
                              ELSE "decline_to_growth"

TroughsAboveZeroTagged == [][FlipTaggedAboveZero]_vars

(***************************************************************************)
(* WorldInitializer: initializeWorld called on a 2 x 2 world that holds    *)
(* organisms already.  The options give the numbers of patches, sheep and  *)
(* wolves to place; the draws of rng are the choices of the placements.    *)
(***************************************************************************)
\* World.setCellContent(x, y, content): only the keys that content has are written
SetCellContentOf(w, x, y, content) ==
    IF ~IsValidPosition(x, y) THEN w
    ELSE [w EXCEPT !.cells[<<x, y>>] =
             [t \in Species |-> IF t \in DOMAIN content THEN content[t] ELSE @[t]]]

\* clearWorld that empties the three slots of every cell
ClearWorldEmptied(w) == [w EXCEPT !.cells = [pos \in DOMAIN @ |-> EmptyCell]]

\* clearWorld: setCellContent(x, y, {}) for every cell
RECURSIVE ClearCells(_, _)
ClearCells(w, positions) ==
    IF positions = <<>> THEN w
    ELSE ClearCells(SetCellContentOf(w, Head(positions)[1], Head(positions)[2], <<>>),
                    Tail(positions))

ClearWorld(w) == ClearCells(w, RasterPos)

\* findEmptyPosition: a drawn cell that holds nothing, or null (the empty tuple) when
\* every draw of the hundred lands in an occupied cell
FindEmptyPosition(w) ==
    {pos \in DOMAIN w.cells : w.cells[pos] = EmptyCell}
    \cup (IF \E pos \in DOMAIN w.cells : w.cells[pos] # EmptyCell THEN {<<>>} ELSE {})

InitialDensities == {400, 1000}
InitialAges == {0, 19}

\* the organism that the i-th round of initializeGrass, initializeSheep or
\* initializeWolves creates at pos
InitialOrganisms(type, id, pos, i) ==
    IF type = "grass"
    THEN {[NewGrass(id, pos[1], pos[2], 0) EXCEPT
              !.energy = 800, !.density = d, !.growthStage = "mature"] : d \in InitialDensities}
    ELSE IF type = "sheep"
    THEN {SeedSheep(id, pos[1], pos[2], Animal(age, 800, 0, 0)) : age \in InitialAges}
    ELSE {SeedWolf(id, pos[1], pos[2],
                   [Animal(age, 900, 0, 0) EXCEPT
                       !.packId = 0, !.packRole = IF i < 2 THEN "alpha" ELSE "omega"]) :
          age \in InitialAges}

\* the worlds after the rounds i..count-1 of one of the three loops
RECURSIVE InitializePopulation(_, _, _, _)
InitializePopulation(w, type, i, count) ==
    IF i >= count THEN {w}
    ELSE UNION {IF pos = <<>> THEN InitializePopulation(w, type, i + 1, count)
                ELSE UNION {InitializePopulation(
                                SetCellContentOf(Allocate(w, o), pos[1], pos[2],
                                                 [t \in {type} |-> o.id]),
                                type, i + 1, count) :
                            o \in InitialOrganisms(type, w.nextId, pos, i)} :
                pos \in FindEmptyPosition(w)}

\* initializeWorld(world, options)
InitializeWorld(w, options) ==
    UNION {UNION {InitializePopulation(s, "wolf", 0, options.wolfCount) :
                  s \in InitializePopulation(g, "sheep", 0, options.sheepCount)} :
           g \in InitializePopulation(ClearWorld(w), "grass", 0, options.grassCount)}

InitializationOptions == [grassCount : 0..2, sheepCount : 0..1, wolfCount : 0..1]

InitializeWorldCall ==
    /\ pc = "seeding"
    /\ \E options \in InitializationOptions :
          \E w \in InitializeWorld([World EXCEPT !.log.atStart = org], options) :
              /\ cells' = w.cells
              /\ org' = w.org
              /\ nextId' = w.nextId
              /\ log' = w.log
              /\ statistics' = UpdateStatistics(w, statistics)
    /\ pc' = "seeded"
    /\ UNCHANGED <<width, height, currentStep, spStep, season, temperature, deathStats,
                   batch, analyzerVars, config, engine, maxSteps, returned>>

\* what the world held before the call: any of a patch, a sheep and a wolf
HeldBefore ==
    {SelectSeq(<<Place("grass", 0, 0, Grass(850)), Place("sheep", 0, 1, SheepYoung),
                 Place("wolf", 1, 1, WolfYoung)>>,
               LAMBDA s : s.t \in kept) : kept \in SUBSET Species}

InitSeeding ==
    /\ \E placed \in HeldBefore : InitGrid(2, 2, 0, placed)
    /\ deathStats = InitializeDeathStats
    /\ pc = "seeding"
    /\ InitAnalyzer
    /\ feed = NoFeed
    /\ maxSteps = 0
    /\ config = DefaultConfig
    /\ engine = NewEngine(0)
    /\ returned = Undefined

NextSeeding == InitializeWorldCall

SpecSeeding == InitSeeding /\ [][NextSeeding]_vars

\* C32: initializeWorld first removes every organism from the world: after it returns
\* the grid holds only the organisms placed by that call, whatever the world held before
C32_OnlyThePlacedRemain == pc = "seeded" => OnGrid(World) \subseteq log.born

\* initializeWorld has returned, it placed a sheep, and the sheep and the wolf that the
\* world held before are still in their cells
C32_Witness ==
    /\ pc = "seeded"
    /\ \E id \in log.born : org[id].species = "sheep" /\ cells[<<org[id].x, org[id].y>>].sheep = id
    /\ \E id \in DOMAIN log.atStart : org[id].species = "sheep" /\ cells[<<0, 1>>].sheep = id
    /\ \E id \in DOMAIN log.atStart : org[id].species = "wolf" /\ cells[<<1, 1>>].wolf = id

\* the numbers of the balance of a species over the tick whose passes have all run
OnGridOf(species) == {id \in OnGrid(World) : org[id].species = species}

AtStartOf(species) == {id \in DOMAIN log.atStart : log.atStart[id].species = species}

CreatedOf(species) == {id \in log.born : org[id].species = species}

RecordsOf(species) == {i \in DOMAIN log.deaths : log.deaths[i].organismType = species}

\* C33: organisms leave the grid only through a recorded death and death records are
\* written only for organisms that leave: for each species and each tick, the number on
\* the grid after the tick is the number before the tick plus the organisms of the
\* species created in the tick minus the death records of the species written in it
C33_PopulationBalance ==
    pc = "finish" =>
        \A species \in Species :
            Cardinality(OnGridOf(species)) =
                Cardinality(AtStartOf(species)) + Cardinality(CreatedOf(species))
                    - Cardinality(RecordsOf(species))

\* the passes of a tick have run: a patch of grass that was on the grid at the start is
\* in no cell any more and no death record names it, so the grid holds fewer patches
\* than the balance gives
C33_Witness ==
    /\ pc = "finish"
    /\ \E id \in AtStartOf("grass") :
          /\ id \notin OnGrid(World)
          /\ \A i \in DOMAIN log.deaths : log.deaths[i].organismId # id
    /\ Cardinality(OnGridOf("grass")) <
           Cardinality(AtStartOf("grass")) + Cardinality(CreatedOf("grass"))
               - Cardinality(RecordsOf("grass"))

\* a parent that miscarried stays on the grid with a death record to its name
MiscarriageUnbalanced ==
    /\ pc = "finish"
    /\ \E id \in log.miscarried \cap OnGrid(World) :
          \E i \in DOMAIN log.deaths : log.deaths[i].organismId = id

(***************************************************************************)
(* C34: after any sequence of recordDeath calls totalDeaths is the sum of  *)
(* deathsByCause, the sum of deathsByType and sheepDeaths + wolfDeaths +   *)
(* grassDeaths, and recentDeaths holds the last min(totalDeaths, 50)       *)
(* records in the order of the calls.                                      *)
(***************************************************************************)
RECURSIVE SumOfEntries(_, _)
SumOfEntries(counts, keys) ==
    IF keys = {} THEN 0
    ELSE LET k == CHOOSE k \in keys : TRUE
         IN  counts[k] + SumOfEntries(counts, keys \ {k})

CountersAgree(ds) ==
    /\ ds.totalDeaths = SumOfEntries(ds.deathsByCause, DOMAIN ds.deathsByCause)
    /\ ds.totalDeaths = SumOfEntries(ds.deathsByType, DOMAIN ds.deathsByType)
    /\ ds.totalDeaths = ds.sheepDeaths + ds.wolfDeaths + ds.grassDeaths
    /\ Len(ds.recentDeaths) = Min(ds.totalDeaths, RecentDeathsCapacity)

\* the records of `before` followed by rec, cut to the last RecentDeathsCapacity
LastRecords(before, rec) ==
    LET all == Append(before, rec)
        n == Len(all)
    IN  IF n <= RecentDeathsCapacity THEN all
        ELSE SubSeq(all, n - RecentDeathsCapacity + 1, n)

RecordedInOrder ==
    deathStats' # deathStats =>
        /\ deathStats'.totalDeaths = deathStats.totalDeaths + 1
        /\ \E id \in DOMAIN org, cause \in Causes :
               LET rec == DeathRecord(org[id], cause, currentStep)
               IN  /\ deathStats'.recentDeaths = LastRecords(deathStats.recentDeaths, rec)
                   /\ deathStats'.deathsByCause[cause] = deathStats.deathsByCause[cause] + 1
                   /\ deathStats'.deathsByType[rec.organismType]
                          = deathStats.deathsByType[rec.organismType] + 1

LedgerStepConsistent ==
    /\ CountersAgree(deathStats)
    /\ CountersAgree(deathStats')
    /\ RecordedInOrder

\* C34: before and after every recordDeath call the four totals of the ledger
\* agree, and the call appends its record to recentDeaths, dropping the oldest
\* record once 50 are held
C34_LedgerConsistent == [][LedgerStepConsistent]_vars

\* a ledger one record past its capacity: the three records written last are
\* its last three in the order of the calls, a wolf killed by hunting the newest
C34_Witness ==
    /\ pc = "ledger"
    /\ deathStats.totalDeaths = RecentDeathsCapacity + 1
    /\ Len(deathStats.recentDeaths) = RecentDeathsCapacity
    /\ deathStats.wolfDeaths > 0 /\ deathStats.sheepDeaths > 0
    /\ deathStats.recentDeaths[RecentDeathsCapacity].organismType = "wolf"
    /\ deathStats.recentDeaths[RecentDeathsCapacity].cause = "hunting"
    /\ deathStats.recentDeaths[RecentDeathsCapacity - 1].cause = "hunger"
    /\ deathStats.recentDeaths[RecentDeathsCapacity - 2].cause = "age"

(***************************************************************************)
(* C35: at the end of every tick an organism stored in the slot of cell    *)
(* (x, y) has x and y equal to (x, y), and no organism is stored in more   *)
(* than one cell.                                                          *)
(***************************************************************************)
CellsHolding(id) == {pos \in DOMAIN cells : \E t \in Species : cells[pos][t] = id}

\* C35: at the end of a tick each organism on the grid is held by exactly one cell,
\* the cell named by its own x and y
C35_StoredAtOwnPosition ==
    AtEndOfTick =>
        \A id \in OnGrid(World) : CellsHolding(id) = {<<org[id].x, org[id].y>>}

\* the end of a tick in which an animal that was on the grid at the start has moved to
\* another cell and an offspring was placed in a cell of its own
C35_Witness ==
    /\ AtEndOfTick
    /\ \E id \in OnGrid(World) \cap DOMAIN log.atStart :
          /\ org[id].species # "grass"
          /\ <<org[id].x, org[id].y>> # <<log.atStart[id].x, log.atStart[id].y>>
          /\ \A t \in Species : cells[<<log.atStart[id].x, log.atStart[id].y>>][t] # id
    /\ \E id \in OnGrid(World) \cap log.born :
          /\ org[id].species # "grass"
          /\ CellsHolding(id) = {<<org[id].x, org[id].y>>}

(***************************************************************************)
(* A litter followed from its birth: a wolf about to give birth and its    *)
(* mate on a 3 x 1 grid without sheep, ticked LitterTicks times.  The one  *)
(* free cell takes the first offspring; after that no wolf can move.       *)
(***************************************************************************)
LitterTicks == 26

LitterWorld ==
    <<Place("wolf", 0, 0, WolfDue), Place("wolf", 1, 0, WolfYoung)>>

InitLitter == InitRun(3, 1, StartStep, LitterWorld, LitterTicks)

SpecLitter == InitLitter /\ [][NextPack]_vars

(***************************************************************************)
(* C36: the organismType of every death record is the species of the       *)
(* organism it was written for; a wolf born through ReproductionProcessor  *)
(* that dies or miscarries is recorded as a wolf and counted in wolfDeaths.*)
(***************************************************************************)
\* the records of this tick whose organism is still on the heap
RecordsOnHeap == {i \in DOMAIN log.deaths : log.deaths[i].organismId \in DOMAIN org}

\* C36: each death record of the tick carries the species of its organism
C36_RecordsCarryTheSpecies ==
    \A i \in RecordsOnHeap : log.deaths[i].organismType = org[log.deaths[i].organismId].species

\* a wolf created by createOffspringOrganism has miscarried and its record has been
\* written and counted
C36_Witness ==
    \E i \in RecordsOnHeap :
        LET id == log.deaths[i].organismId
        IN  /\ id \notin DOMAIN LitterWorld
            /\ org[id].species = "wolf"
            /\ id \in log.miscarried
            /\ deathStats.totalDeaths > 0
            /\ deathStats.wolfDeaths = 0

(***************************************************************************)
(* C37: while the engine is paused or stopped no tick is processed except  *)
(* by a step() call: under any interleaving of start, setSpeed, pause,     *)
(* resume, stop and timer callbacks the callback of an interval enters     *)
(* processStep only while the engine is running and not paused, and at     *)
(* most one interval is active.                                            *)
(***************************************************************************)
AtMostOneTimer == Cardinality(engine.timers) <= 1

StoppedWithoutTimer == ~engine.isRunning => engine.timers = {}

TimerOnlyWhileRunning ==
    /\ TimerFires => engine.isRunning /\ ~engine.isPaused
    /\ Cardinality(engine.timers') <= 1

\* C37: an interval callback processes a tick only while the engine is running and
\* not paused, and no call leaves more than one interval active
C37_NoTickWhilePaused == [][TimerOnlyWhileRunning]_vars

\* the engine is paused, the interval started by setSpeed is still active and its
\* callback is processing a tick after the first
C37_Witness ==
    /\ engine.isRunning /\ engine.isPaused
    /\ ~config.pauseOnExtinction
    /\ engine.timers # {} /\ engine.intervalId # 0
    /\ engine.pc = "stepping" /\ engine.caller = "timer"
    /\ engine.currentStep > 0
    /\ pc = "finish"

(***************************************************************************)
(* C38: extinctionEvents holds at most one event per species, recorded in  *)
(* the first tick after which the count of the species is zero, and with   *)
(* pauseOnExtinction a running engine is paused at the end of every tick   *)
(* in which an extinction event exists.                                    *)
(***************************************************************************)
HistoryKey(species) == IF species = "wolf" THEN "wolves" ELSE species

\* the entries of populationHistory, one per tick of the engine, with a count of zero
ZeroTicks(species) ==
    {i \in 1..Len(populationHistory) : populationHistory[i][HistoryKey(species)] = 0}

EventsOf(species) ==
    {i \in 1..Len(statistics.extinctionEvents) : statistics.extinctionEvents[i].species = species}

EventsAtFirstZero ==
    \A species \in Species :
        /\ Cardinality(EventsOf(species)) <= 1
        /\ ZeroTicks(species) # {} <=> EventsOf(species) # {}
        /\ \A i \in EventsOf(species) :
               \E z \in ZeroTicks(species) :
                   /\ populationHistory[z].step = statistics.extinctionEvents[i].step
                   /\ \A y \in ZeroTicks(species) : y >= z

TickEnds == engine.pc = "stepping" /\ engine'.pc = "ready"

ExtinctionsRecorded ==
    TickEnds =>
        /\ EventsAtFirstZero'
        /\ config.pauseOnExtinction /\ engine.isRunning /\ statistics'.extinctionEvents # <<>>
               => engine'.isRunning /\ engine'.isPaused

\* C38: at the end of each tick of the engine every species has at most one extinction
\* event, it has one exactly if its count was zero after some tick, the event carries
\* the step of the first such tick, and with pauseOnExtinction a running engine is left
\* paused when the list of events is not empty
C38_ExtinctionsRecordedOnce == [][ExtinctionsRecorded]_vars

\* the second tick of a running engine with pauseOnExtinction has ended: a species
\* that was gone after the first tick is still gone and has the one event of step 1,
\* another species is still there, and the engine is paused
C38_Witness ==
    /\ Ready
    /\ config.pauseOnExtinction
    /\ engine.isRunning /\ engine.isPaused
    /\ engine.currentStep = 2
    /\ Len(populationHistory) = 2
    /\ \E species \in Species :
          /\ ZeroTicks(species) = {1, 2}
          /\ Cardinality(EventsOf(species)) = 1
          /\ \E i \in EventsOf(species) : statistics.extinctionEvents[i].step = 1
    /\ \E species \in Species : ZeroTicks(species) = {} /\ EventsOf(species) = {}

(***************************************************************************)
(* A wolf and a sheep on a strip of 6 x 1 cells, longer than the movement  *)
(* range of either, with a patch of grass, ticked ChaseTicks times.        *)
(***************************************************************************)
ChaseTicks == 2

ChaseWorlds ==
    {<<Place("wolf", wx, 0, wp), Place("sheep", sx, 0, sp), Place("grass", 4, 0, Grass(850))>> :
     wx \in {0, 2}, sx \in {3, 5}, wp \in {WolfHungry, WolfRavenous, WolfSated},
     sp \in {SheepYoung, SheepHungry}}

InitChase == \E placed \in ChaseWorlds : InitRun(6, 1, StartStep, placed, ChaseTicks)

SpecChase == InitChase /\ [][Next]_vars

(***************************************************************************)
(* C39: in one tick no sheep and no wolf is displaced by more than its     *)
(* movementRange along either axis, and each animal is moved at most once. *)
(***************************************************************************)
MovementRange(species) == IF species = "sheep" THEN SheepMovementRange ELSE WolfMovementRange

MovesOf(id) == {k \in DOMAIN log.moves : log.moves[k].id = id}

\* C39: every move of the tick is a move of an animal that was on the grid at the start
\* of the tick, by at most the movementRange of its species along x and along y, no
\* animal has two moves, and an animal is no further than that from where it started
C39_MovedOnceWithinRange ==
    /\ \A k \in DOMAIN log.moves :
          LET m == log.moves[k]
          IN  /\ m.id \in DOMAIN log.atStart
              /\ Abs(m.dx) <= MovementRange(log.atStart[m.id].species)
              /\ Abs(m.dy) <= MovementRange(log.atStart[m.id].species)
              /\ MovesOf(m.id) = {k}
    /\ \A id \in DOMAIN log.atStart \cap DOMAIN org :
          log.atStart[id].species # "grass" =>
              /\ Abs(org[id].x - log.atStart[id].x) <= MovementRange(log.atStart[id].species)
              /\ Abs(org[id].y - log.atStart[id].y) <= MovementRange(log.atStart[id].species)

\* the end of a tick in which a wolf stepped one cell toward a sheep out of its reach,
\* kept its hunting target and was not moved by the movement pass, on a strip where a
\* second move would have carried it further than its movementRange
C39_Witness ==
    /\ AtEndOfTick
    /\ width > 2 * WolfMovementRange
    /\ \E h \in DOMAIN log.hunts :
          LET wid == log.hunts[h].wolf
          IN  /\ log.hunts[h].distance2 > 1
              /\ wid \in DOMAIN org
              /\ org[wid].huntingTarget # 0
              /\ \E k \in MovesOf(wid) : Abs(log.moves[k].dx) = 1
              /\ Cardinality(MovesOf(wid)) = 1
    /\ \E k \in DOMAIN log.moves : log.atStart[log.moves[k].id].species = "sheep"

(***************************************************************************)
(* C40: a pregnancy is never restarted.  While an animal is pregnant no    *)
(* mating selects it, its gestationRemaining goes down by one per tick and *)
(* its litter size and mate stay as they are until it gives birth,         *)
(* miscarries or dies, so no animal is pregnant for more than              *)
(* gestationPeriod consecutive ticks.                                      *)
(***************************************************************************)
WithYoung(o) == o.species # "grass" /\ o.reproductionState.isPregnant

\* the pass of processStep in which the pregnancies of the species are processed
PassOfPregnancies(species) == IF species = "sheep" THEN "reproduction" ELSE "wolfReproduction"

PregnancyKept ==
    \A id \in DOMAIN org \cap DOMAIN org' :
        WithYoung(org[id]) /\ WithYoung(org'[id]) =>
            LET before == org[id].reproductionState
                after == org'[id].reproductionState
            IN  /\ after.expectedLitterSize = before.expectedLitterSize
                /\ after.mateId = before.mateId
                /\ after.lastMatingStep = before.lastMatingStep
                /\ after.gestationRemaining =
                       IF pc = PassOfPregnancies(org[id].species)
                       THEN before.gestationRemaining - 1
                       ELSE before.gestationRemaining

\* the ticks since the mating and the ticks still to go are no more than the gestation
PregnancyWithinTerm ==
    pc = "idle" =>
        \A id \in OnGrid(World) :
            WithYoung(org[id]) =>
                /\ org[id].reproductionState.gestationRemaining >= 1
                /\ org[id].reproductionState.gestationRemaining
                       + (currentStep - org[id].reproductionState.lastMatingStep)
                     <= Repro(ReproType(org[id])).gestationPeriod

\* neither partner of a mating of the tick was pregnant when it was selected
NoPregnantPartner ==
    \A i \in DOMAIN log.matings :
        /\ ~ log.matings[i].before[1].reproductionState.isPregnant
        /\ ~ log.matings[i].before[2].reproductionState.isPregnant

PregnancyRunsOnce ==
    /\ NoPregnantPartner'
    /\ PregnancyKept
    /\ PregnancyWithinTerm /\ PregnancyWithinTerm'

\* C40: no mating takes a pregnant animal as a partner; from one step to the next a
\* pregnant animal that is still pregnant has the same
\* litter size, mate and mating step and a gestationRemaining that is one less after the
\* reproduction pass and the same otherwise, and between ticks the ticks since its mating
\* plus its gestationRemaining are at most the gestationPeriod of its species
C40_PregnancyNeverRestarted == [][PregnancyRunsOnce]_vars

\* an animal that became pregnant in a mating of this run is in the last tick of its
\* gestation, next to an animal of its species that is not pregnant
C40_Witness ==
    /\ AtEndOfTick
    /\ \E id \in OnGrid(World) :
          /\ WithYoung(org[id])
          /\ org[id].reproductionState.gestationRemaining = 1
          /\ org[id].reproductionState.mateId \in OnGrid(World)
          /\ \E i \in DOMAIN log.mated :
                /\ log.mated[i].id = id /\ log.mated[i].kind = "mating"
                /\ log.mated[i].step = org[id].reproductionState.lastMatingStep
          /\ currentStep - org[id].reproductionState.lastMatingStep
               = Repro(ReproType(org[id])).gestationPeriod - 1

====
